---------------------------- MODULE Spec2Model ----------------------------
(***************************************************************************)
(* PSL (Property Serialization Library): property.h, property.cpp and the  *)
(* container header (property_container / property_array).                 *)
(*                                                                         *)
(* The model keeps an explicit heap of property_abstract objects so that   *)
(* identity, ownership and deallocation are visible, and a tagged JSON     *)
(* value type standing for nlohmann::json.                                 *)
(***************************************************************************)
EXTENDS Integers, Sequences, FiniteSets, TLC

VARIABLES heap,   \* address -> object cell (a released cell is NoCell again)
          root,   \* the objects the application holds: variable name -> address
          last,   \* what the last operation was, on what, and what it returned
          io      \* the files on disk and what the last call wrote to std::cerr

vars == <<heap, root, last, io>>

(***************************************************************************)
(* Bounds of the model.                                                    *)
(***************************************************************************)
MaxAddr == 40      \* size of the address space
MaxVal  == 1       \* scalar values written by the application are 0..MaxVal
MaxLen  == 2       \* longest document array offered to a container's load

(***************************************************************************)
(* Program constants.                                                      *)
(***************************************************************************)
ArrN == 2          \* the <size> argument of property_array<type, size>

NULL   == 0            \* nullptr
NoName == "nullptr"    \* string _name == nullptr (string is a const char pointer)
Addr   == 1..MaxAddr

Min(S) == CHOOSE x \in S : \A y \in S : x <= y

(***************************************************************************)
(* JSON (nlohmann::json) values, tagged by value_t.                        *)
(***************************************************************************)
JNull    == [t |-> "null"]
JInt(i)  == [t |-> "int", i |-> i]
JBool(b) == [t |-> "bool", b |-> b]
JStr(s)  == [t |-> "str", s |-> s]
JObj(f)  == [t |-> "obj", m |-> f]
JArr(e)  == [t |-> "arr", e |-> e]

\* std::map order of the object keys the model uses (ASCII order); a JSON
\* object is iterated in this order.
KeyOrder == <<"A", "Box", "Example", "Leaf", "Name", "P", "Pair", "S", "x", "zz">>

\* The names a child is registered under in the model, in the order the
\* model walks an unordered_map (the map's own order is unspecified).
MapOrder == <<"A", "Box", "Leaf", "Name", "S", "x">>
Names    == {MapOrder[i] : i \in 1..Len(MapOrder)}

JKeys(j) == IF j.t = "obj" THEN DOMAIN j.m ELSE {}

\* The keys of object j as a sequence, in iteration order.
RECURSIVE KeysFrom(_, _)
KeysFrom(j, i) ==
    IF i > Len(KeyOrder) THEN <<>>
    ELSE IF KeyOrder[i] \in JKeys(j) THEN <<KeyOrder[i]>> \o KeysFrom(j, i + 1)
    ELSE KeysFrom(j, i + 1)
items(j) == KeysFrom(j, 1)

\* json::operator[](key) = value on a null or object value.
JSet(j, k, v) ==
    JObj([x \in JKeys(j) \cup {k} |-> IF x = k THEN v ELSE j.m[x]])

\* json::front(): the first value of an object, the first element of an array,
\* the value itself for a primitive.  On null and on empty containers it is
\* undefined (ok = FALSE).
front(j) ==
    CASE j.t = "obj" -> IF JKeys(j) = {} THEN [ok |-> FALSE, j |-> JNull]
                        ELSE [ok |-> TRUE, j |-> j.m[Head(items(j))]]
      [] j.t = "arr" -> IF j.e = <<>> THEN [ok |-> FALSE, j |-> JNull]
                        ELSE [ok |-> TRUE, j |-> Head(j.e)]
      [] j.t = "null" -> [ok |-> FALSE, j |-> JNull]
      [] OTHER -> [ok |-> TRUE, j |-> j]

\* json::get<int>(): numbers and booleans convert, anything else throws
\* type_error (ok = FALSE).
get_int(j) ==
    CASE j.t = "int"  -> [ok |-> TRUE, v |-> j.i]
      [] j.t = "bool" -> [ok |-> TRUE, v |-> IF j.b THEN 1 ELSE 0]
      [] OTHER        -> [ok |-> FALSE, v |-> 0]

\* json::get<std::vector<JSON>>(): an array converts, anything else throws.
get_vector(j) ==
    IF j.t = "arr" THEN [ok |-> TRUE, e |-> j.e] ELSE [ok |-> FALSE, e |-> <<>>]

\* json::get<std::array<JSON, size>>(): reads elements 0..size-1 with at();
\* a non-array or a short array throws, surplus elements are ignored.
get_array(j) ==
    IF j.t = "arr" /\ Len(j.e) >= ArrN
    THEN [ok |-> TRUE, e |-> SubSeq(j.e, 1, ArrN)]
    ELSE [ok |-> FALSE, e |-> <<>>]

\* (mutant) a merge that descends: where parent and add both hold an object
\* under a key, the two objects are merged instead of the one replaced
merge_JSON_deep(parent, add) ==
    CASE add.t = "obj" /\ parent.t \in {"null", "obj"} ->
            [ok |-> TRUE,
             j  |-> IF JKeys(add) = {} THEN parent
                    ELSE JObj([k \in JKeys(parent) \cup JKeys(add) |->
                            IF k \notin JKeys(add) THEN parent.m[k]
                            ELSE IF k \in JKeys(parent) /\ parent.m[k].t = "obj"
                                    /\ add.m[k].t = "obj"
                            THEN JObj([n \in JKeys(parent.m[k]) \cup JKeys(add.m[k]) |->
                                        IF n \in JKeys(add.m[k]) THEN add.m[k].m[n]
                                        ELSE parent.m[k].m[n]])
                            ELSE add.m[k]])]
      [] add.t = "obj" -> [ok |-> JKeys(add) = {}, j |-> parent]
      [] add.t = "null" -> [ok |-> TRUE, j |-> parent]
      [] add.t = "arr" /\ add.e = <<>> -> [ok |-> TRUE, j |-> parent]
      [] OTHER -> [ok |-> FALSE, j |-> parent]

\* merge_JSON: for each item of add in iteration order,
\* parent[key] = value; parent is returned.  operator[] with a key turns a
\* null parent into an object and throws on a parent that is neither null
\* nor an object.  Iterating a null value or an empty array does nothing;
\* key() on the iterator of a non-empty array or of a primitive throws.
\* (ok = FALSE: an exception left the call; j is parent as the call left it.)
merge_JSON(parent, add) ==
    LET RECURSIVE Put(_, _)
        Put(p, ks) ==
            IF ks = <<>> THEN [ok |-> TRUE, j |-> p]
            ELSE IF p.t \notin {"null", "obj"} THEN [ok |-> FALSE, j |-> p]
            ELSE Put(JSet(p, Head(ks), add.m[Head(ks)]), Tail(ks))
    IN  CASE add.t = "obj" -> Put(parent, items(add))
          [] add.t = "null" -> [ok |-> TRUE, j |-> parent]
          [] add.t = "arr" /\ add.e = <<>> -> [ok |-> TRUE, j |-> parent]
          [] OTHER -> [ok |-> FALSE, j |-> parent]


(***************************************************************************)
(* The heap.  A cell is one property_abstract object:                      *)
(*   kind  "scalar" (property<type>), "props" (properties and the types    *)
(*         derived from it), "seq" (property_container), "arr"             *)
(*         (property_array), "none" (never allocated)                      *)
(*   cls   the C++ type: the wrapped type of a scalar, the class of a      *)
(*         properties object, the element type of a container              *)
(*   name  _name;  val  _value;  kids  _properties (NULL = no such key);   *)
(*   elems _container.                                                     *)
(* delete releases the cell: what released memory holds is indeterminate,  *)
(* the model keeps none of it and treats every use of it as undefined.     *)
(***************************************************************************)
NoKids == [k \in Names |-> NULL]

NoCell == [live |-> FALSE, kind |-> "none", cls |-> "none", name |-> NoName,
           val |-> 0, kids |-> NoKids, elems |-> <<>>]

RECURSIVE Nulls(_)
Nulls(n) == IF n <= 0 THEN <<>> ELSE Append(Nulls(n - 1), NULL)

\* property<type>(name, default)
ScalarCell(ty, name, v) ==
    [live |-> TRUE, kind |-> "scalar", cls |-> ty, name |-> name,
     val |-> v, kids |-> NoKids, elems |-> <<>>]

\* properties(name): an empty _properties map
PropsCell(cls, name) ==
    [live |-> TRUE, kind |-> "props", cls |-> cls, name |-> name,
     val |-> 0, kids |-> NoKids, elems |-> <<>>]

\* property_container<type, ...>(name): an empty _container
SeqCell(of, name) ==
    [live |-> TRUE, kind |-> "seq", cls |-> of, name |-> name,
     val |-> 0, kids |-> NoKids, elems |-> <<>>]

\* property_array<type, size>(name): _container() is size null pointers
ArrCell(of, name) ==
    [live |-> TRUE, kind |-> "arr", cls |-> of, name |-> name,
     val |-> 0, kids |-> NoKids, elems |-> Nulls(ArrN)]

(***************************************************************************)
(* The state an operation threads through its steps:                       *)
(*   h    the heap                                                         *)
(*   exc  a C++ exception is propagating                                   *)
(*   ub   the operation executed undefined behaviour (a null or dangling   *)
(*        pointer was dereferenced or deleted)                             *)
(*   oom  the model's address space is exhausted (a bound of the model)    *)
(*   al   the addresses operator new returned, in order                    *)
(*   dl   the addresses passed to operator delete, in order                *)
(*   ptr  the pointer the last new / clone returned                        *)
(***************************************************************************)
Start(h) == [h |-> h, exc |-> FALSE, ub |-> FALSE, oom |-> FALSE,
             al |-> <<>>, dl |-> <<>>, ptr |-> NULL]

Skip(m) == m.exc \/ m.ub \/ m.oom

Throw(m) == [m EXCEPT !.exc = TRUE]
Undef(m) == [m EXCEPT !.ub = TRUE]

FreeAddrs(h) == {a \in Addr : ~h[a].live}

Live(h, a) == a \in Addr /\ h[a].live

\* operator new followed by the constructor that leaves `cell` in the object.
\* The allocator hands out the lowest address that is not in use, so a freed
\* address is used again.
New(m, cell) ==
    IF Skip(m) THEN m
    ELSE IF FreeAddrs(m.h) = {} THEN [m EXCEPT !.oom = TRUE]
    ELSE LET a == Min(FreeAddrs(m.h))
         IN  [m EXCEPT !.h[a] = cell, !.al = Append(@, a), !.ptr = a]

(***************************************************************************)
(* The calls that recurse through the object tree (delete, clone, assign,  *)
(* load, the constructors) go through one dispatcher, Do, defined after    *)
(* the bodies it dispatches to.                                            *)
(***************************************************************************)
RECURSIVE Do(_, _, _, _, _)

Delete(m, a)          == Do("delete", m, a, NULL, JNull)
clone(m, a)           == Do("clone", m, a, NULL, JNull)
assign(m, d, s)       == Do("assign", m, d, s, JNull)
load(m, a, doc)       == Do("load", m, a, NULL, doc)
Construct(m, c, name) == Do("construct", m, c, name, JNull)
AddFields(m, p, fs)   == Do("addfields", m, p, NULL, fs)

RECURSIVE DeleteEach(_, _)

\* delete p: nothing for nullptr; the destructor of the object's kind, then the
\* memory is released.  Deleting an object that is not live is undefined.
\*   ~properties (property.cpp 163-169): delete every mapped child, clear map
\*   ~property_container / ~property_array: clear on itself
delete_impl(m, a) ==
    IF Skip(m) \/ a = NULL THEN m
    ELSE IF ~Live(m.h, a) THEN [Undef(m) EXCEPT !.dl = Append(@, a)]
    ELSE LET c  == m.h[a]
             m1 == CASE c.kind = "props" ->
                           LET d == DeleteEach(m, [i \in 1..Len(MapOrder) |-> c.kids[MapOrder[i]]])
                           IN  IF Skip(d) THEN d ELSE [d EXCEPT !.h[a].kids = NoKids]
                     [] c.kind = "seq" ->
                           LET d == DeleteEach(m, c.elems)
                           IN  IF Skip(d) THEN d ELSE [d EXCEPT !.h[a].elems = <<>>]
                     [] c.kind = "arr" -> DeleteEach(m, c.elems)
                     [] OTHER -> m
         IN  IF Skip(m1) THEN m1
             ELSE [m1 EXCEPT !.h[a] = NoCell, !.dl = Append(@, a)]

\* delete each non-null pointer of s, in order
DeleteEach(m, s) ==
    IF s = <<>> THEN m ELSE DeleteEach(Delete(m, Head(s)), Tail(s))

\* property_container::clear: delete every non-null element, then
\* argr_container.clear()
container_clear(m, a) ==
    LET d == DeleteEach(m, m.h[a].elems)
    IN  IF Skip(d) THEN d ELSE [d EXCEPT !.h[a].elems = <<>>]

\* property_array::clear: delete every non-null element.  The lambda takes the
\* pointer by value, so `arg_it = nullptr` resets a copy: the slots keep the
\* deleted addresses.
array_clear(m, a) == DeleteEach(m, m.h[a].elems)

\* property_container::grow: clear, then swap in arg_size null pointers
grow(m, a, n) ==
    LET d == container_clear(m, a)
    IN  IF Skip(d) THEN d ELSE [d EXCEPT !.h[a].elems = Nulls(n)]


(***************************************************************************)
(* The application's aggregate types, written after the "example" struct   *)
(* of property.h: each member is a reference initialised by                *)
(* properties::add, the default constructor names the object, the copy     *)
(* constructor is  T(const T& o) : properties(o) { properties::assign(o); }*)
(* and clone() is  new T(this object).                                           *)
(*   Leaf     "Leaf"    { int x = 0 }                                      *)
(*   Example  "Example" { int Name = 0; Leaf }                             *)
(*   Anon     nullptr   { int Name = 0; Leaf }                             *)
(*   Pair     "Pair"    { int Name = 0; int x = 0 }                        *)
(*   Box      "Box"     { vector<Leaf> S; array<Leaf, ArrN> A }            *)
(* The class "properties" is the base class itself, with no members.       *)
(***************************************************************************)
Field(k, name, def, of) == [k |-> k, name |-> name, def |-> def, of |-> of]

Fields(c) ==
    CASE c = "Leaf"    -> << Field("int", "x", 0, "int") >>
      [] c = "Example" -> << Field("int", "Name", 0, "int"), Field("agg", "Leaf", 0, "Leaf") >>
      [] c = "Anon"    -> << Field("int", "Name", 0, "int"), Field("agg", "Leaf", 0, "Leaf") >>
      [] c = "Pair"    -> << Field("int", "Name", 0, "int"), Field("int", "x", 0, "int") >>
      [] c = "Box"     -> << Field("seq", "S", 0, "Leaf"), Field("arr", "A", 0, "Leaf") >>
      [] OTHER         -> << >>

ClassName(c) == IF c = "Anon" THEN NoName ELSE c

(***************************************************************************)
(* properties: add, remove, constructors, clone, assign.                   *)
(***************************************************************************)
RECURSIVE CopyKids(_, _, _, _), AssignKids(_, _, _, _), clone_each(_, _, _, _)

\* (mutant) a remove that erases the key and does not delete the child
properties_remove_leak(m, p, n) ==
    IF Skip(m) THEN m
    ELSE IF n = NoName THEN Undef(m)
    ELSE [m EXCEPT !.h[p].kids[n] = NULL]

\* properties::remove(name): find; if found delete the child and erase the key.
\* find(argcr_name) builds a std::string from the const char*, which is
\* undefined for nullptr.
properties_remove(m, p, n) ==
    IF Skip(m) THEN m
    ELSE IF n = NoName THEN Undef(m)
    ELSE IF m.h[p].kids[n] = NULL THEN m
    ELSE LET d == Delete(m, m.h[p].kids[n])
         IN  IF Skip(d) THEN d ELSE [d EXCEPT !.h[p].kids[n] = NULL]

\* (mutant) an add with the semantics of map::insert: a name already
\* registered keeps its child
properties_add_keep(m, p, obj) ==
    IF Skip(m) THEN m
    ELSE LET n == m.h[obj].name
         IN  IF m.h[p].kids[n] # NULL THEN [m EXCEPT !.ptr = obj]
             ELSE [m EXCEPT !.h[p].kids[n] = obj, !.ptr = obj]

\* (mutant) an add that files the object under the first key of the map
\* that is free, whatever the object's name
properties_add_slot(m, p, obj) ==
    IF Skip(m) THEN m
    ELSE LET n    == m.h[obj].name
             r    == properties_remove(m, p, n)
             free == {i \in 1..Len(MapOrder) : r.h[p].kids[MapOrder[i]] = NULL}
         IN  IF Skip(r) THEN r
             ELSE [r EXCEPT !.h[p].kids[MapOrder[Min(free)]] = obj, !.ptr = obj]

\* properties::add(property_abs ptr): remove(obj->get_name()), then
\* _properties[obj->get_name()] = obj; returns obj.
properties_add(m, p, obj) ==
    IF Skip(m) THEN m
    ELSE LET n == m.h[obj].name
             r == properties_remove(m, p, n)
         IN  IF Skip(r) THEN r
             ELSE [r EXCEPT !.h[p].kids[n] = obj, !.ptr = obj]

\* The member initialisers of a derived type, in declaration order:
\*   add<int>(name, default)        new property<int>, add
\*   add<T>(T())                    add(T().clone()); the temporary dies
\*   add<PSL::vector<T>>(name)      new property_container, add
\*   add<PSL::array<T, N>>(name)    new property_array, add
addfields_impl(m, p, fs) ==
    IF Skip(m) \/ fs = <<>> THEN m
    ELSE LET f == Head(fs)
             r == CASE f.k = "int" ->
                         LET n == New(m, ScalarCell(f.of, f.name, f.def))
                         IN  properties_add(n, p, n.ptr)
                    [] f.k = "agg" ->
                         LET t == Construct(m, f.of, NoName)
                             c == clone(t, t.ptr)
                             a == properties_add(c, p, c.ptr)
                         IN  Delete(a, t.ptr)
                    [] f.k = "seq" ->
                         LET n == New(m, SeqCell(f.of, f.name))
                         IN  properties_add(n, p, n.ptr)
                    [] OTHER ->
                         LET n == New(m, ArrCell(f.of, f.name))
                         IN  properties_add(n, p, n.ptr)
         IN  AddFields(r, p, Tail(fs))

\* The default constructor of class c (for the base class, properties(name)).
construct_impl(m, c, name) ==
    LET n == New(m, PropsCell(c, IF c = "properties" THEN name ELSE ClassName(c)))
        r == AddFields(n, n.ptr, Fields(c))
    IN  IF Skip(r) THEN r ELSE [r EXCEPT !.ptr = n.ptr]

\* (mutant) a copy that inserts the source's children themselves
CopyKids_share(m, p, src, i) ==
    IF Skip(m) THEN m ELSE [m EXCEPT !.h[p].kids = m.h[src].kids]

\* properties(const properties&), the loop: insert({key, child->clone()}) for
\* every entry of the source map (insert keeps an existing key).
CopyKids(m, p, src, i) ==
    IF Skip(m) \/ i > Len(MapOrder) THEN m
    ELSE LET k == MapOrder[i]
             e == m.h[src].kids[k]
         IN  IF e = NULL THEN CopyKids(m, p, src, i + 1)
             ELSE LET c == clone(m, e)
                      r == IF Skip(c) \/ c.h[p].kids[k] # NULL THEN c
                           ELSE [c EXCEPT !.h[p].kids[k] = c.ptr]
                  IN  CopyKids(r, p, src, i + 1)

\* properties::assign, the loop over the other map: a key found in this map
\* delegates to that child's assign.
AssignKids(m, d, s, i) ==
    IF Skip(m) \/ i > Len(MapOrder) THEN m
    ELSE LET k == MapOrder[i]
         IN  IF m.h[s].kids[k] # NULL /\ m.h[d].kids[k] # NULL
             THEN AssignKids(assign(m, m.h[d].kids[k], m.h[s].kids[k]), d, s, i + 1)
             ELSE AssignKids(m, d, s, i + 1)

\* (mutant) an assign that replaces: a scalar child the other side lacks is
\* reset to zero
properties_assign_replace(m, d, s) ==
    IF Skip(m) THEN m
    ELSE IF m.h[s].kind # "props" THEN Undef(m)
    ELSE LET r == AssignKids(m, d, s, 1)
             z == [c \in Addr |->
                     IF \E k \in Names :
                            /\ m.h[d].kids[k] = c /\ m.h[s].kids[k] = NULL
                            /\ m.h[c].kind = "scalar"
                     THEN [r.h[c] EXCEPT !.val = 0] ELSE r.h[c]]
         IN  [r EXCEPT !.h = z]

\* (mutant) an assign that takes over the other Registry's name as well
properties_assign_rename(m, d, s) ==
    IF Skip(m) THEN m
    ELSE IF m.h[s].kind # "props" THEN Undef(m)
    ELSE LET r == AssignKids(m, d, s, 1)
         IN  IF Skip(r) THEN r ELSE [r EXCEPT !.h[d].name = m.h[s].name]

\* properties::assign: cast<properties>() of the argument is dereferenced
\* unchecked, so a non-properties argument is a null dereference.
properties_assign(m, d, s) ==
    IF Skip(m) THEN m
    ELSE IF m.h[s].kind # "props" THEN Undef(m)
    ELSE AssignKids(m, d, s, 1)

\* The copy constructor of src's class: property_abstract copies _name,
\* properties(const properties&) clones the children; a derived type then
\* runs its member initialisers and properties::assign(src).
properties_copy(m, src) ==
    LET c == m.h[src].cls
        n == New(m, PropsCell(c, m.h[src].name))
        k == CopyKids(n, n.ptr, src, 1)
        r == IF c = "properties" THEN k
             ELSE properties_assign(AddFields(k, n.ptr, Fields(c)), n.ptr, src)
    IN  IF Skip(r) THEN r ELSE [r EXCEPT !.ptr = n.ptr]

\* for_both(_container, _other, ...) of the two container assigns: up to the
\* shorter length, a non-null source element is cloned into the slot.
clone_each(m, d, s, i) ==
    IF Skip(m) \/ i > Len(m.h[d].elems) \/ i > Len(m.h[s].elems) THEN m
    ELSE LET e == m.h[s].elems[i]
         IN  IF e = NULL THEN clone_each(m, d, s, i + 1)
             ELSE LET c == clone(m, e)
                      r == IF Skip(c) THEN c ELSE [c EXCEPT !.h[d].elems[i] = c.ptr]
                  IN  clone_each(r, d, s, i + 1)

\* (mutant) an assign that does not regrow: the destination keeps its length
container_assign_nogrow(m, d, s) ==
    IF Skip(m) THEN m
    ELSE IF m.h[s].kind # "seq" \/ m.h[s].cls # m.h[d].cls THEN Undef(m)
    ELSE clone_each(m, d, s, 1)

\* property_container::assign: _other refers to the argument's container;
\* grow(_other.size()), then for_both.
container_assign(m, d, s) ==
    IF Skip(m) THEN m
    ELSE IF m.h[s].kind # "seq" \/ m.h[s].cls # m.h[d].cls THEN Undef(m)
    ELSE clone_each(grow(m, d, Len(m.h[s].elems)), d, s, 1)

\* property_array::assign: clear(_container), then for_both.
array_assign(m, d, s) ==
    IF Skip(m) THEN m
    ELSE IF m.h[s].kind # "arr" \/ m.h[s].cls # m.h[d].cls THEN Undef(m)
    ELSE clone_each(array_clear(m, d), d, s, 1)

\* property<type>::assign: _value = argcr_obj.cast<type>()->_value
property_assign(m, d, s) ==
    IF Skip(m) THEN m
    ELSE IF m.h[s].kind # "scalar" \/ m.h[s].cls # m.h[d].cls THEN Undef(m)
    ELSE [m EXCEPT !.h[d].val = m.h[s].val]

\* virtual assign
assign_impl(m, d, s) ==
    IF Skip(m) THEN m
    ELSE IF ~Live(m.h, d) \/ ~Live(m.h, s) THEN Undef(m)
    ELSE CASE m.h[d].kind = "scalar" -> property_assign(m, d, s)
           [] m.h[d].kind = "props"  -> properties_assign(m, d, s)
           [] m.h[d].kind = "seq"    -> container_assign(m, d, s)
           [] OTHER                  -> array_assign(m, d, s)

\* virtual clone: new T(this object).  The container copy constructors copy _name,
\* start from an empty _container and assign(argcr_obj).
clone_impl(m, a) ==
    IF Skip(m) THEN m
    ELSE IF ~Live(m.h, a) THEN Undef(m)
    ELSE CASE m.h[a].kind = "scalar" -> New(m, m.h[a])
           [] m.h[a].kind = "props"  -> properties_copy(m, a)
           [] m.h[a].kind = "seq" ->
                LET n == New(m, SeqCell(m.h[a].cls, m.h[a].name))
                    r == container_assign(n, n.ptr, a)
                IN  IF Skip(r) THEN r ELSE [r EXCEPT !.ptr = n.ptr]
           [] OTHER ->
                LET n == New(m, ArrCell(m.h[a].cls, m.h[a].name))
                    r == array_assign(n, n.ptr, a)
                IN  IF Skip(r) THEN r ELSE [r EXCEPT !.ptr = n.ptr]


(***************************************************************************)
(* load.  The "no name" test of the three loads builds a runtime_error     *)
(* object and does not throw it, so it has no effect.                      *)
(***************************************************************************)
RECURSIVE LoadKeys(_, _, _, _), load_each(_, _, _, _), load_each_alias(_, _, _, _)

\* (mutant) a load that converts the value and does not store it
property_load_drop(m, a, doc) ==
    IF Skip(m) THEN m
    ELSE IF get_int(doc).ok THEN m ELSE Throw(m)

\* property<type>::load: _value = argcr_obj.get<type>()
property_load(m, a, doc) ==
    IF Skip(m) THEN m
    ELSE LET g == get_int(doc)
         IN  IF g.ok THEN [m EXCEPT !.h[a].val = g.v] ELSE Throw(m)

\* properties::load, the loop over the document's items: a key found in the
\* map delegates to that child's load with the key's value.
LoadKeys(m, a, doc, ks) ==
    IF Skip(m) \/ ks = <<>> THEN m
    ELSE LET k == Head(ks)
         IN  IF k \in Names /\ m.h[a].kids[k] # NULL
             THEN LoadKeys(load(m, m.h[a].kids[k], doc.m[k]), a, doc, Tail(ks))
             ELSE LoadKeys(m, a, doc, Tail(ks))

\* (mutant) a load that resets every scalar child the document does not name
properties_load_reset(m, a, doc) ==
    IF Skip(m) THEN m
    ELSE LET r == LoadKeys(m, a, doc, items(doc))
             z == [c \in Addr |->
                     IF \E k \in Names \ JKeys(doc) :
                            m.h[a].kids[k] = c /\ m.h[c].kind = "scalar"
                     THEN [r.h[c] EXCEPT !.val = 0] ELSE r.h[c]]
         IN  [r EXCEPT !.exc = FALSE, !.h = z]

\* (mutant) a load that rebuilds the scalar child "x" it has loaded: a new
\* object takes its place in the map and the old one is deleted
properties_load_renew(m, a, doc) ==
    IF Skip(m) THEN m
    ELSE LET r   == LoadKeys(m, a, doc, items(doc))
             q   == [r EXCEPT !.exc = FALSE]
             old == q.h[a].kids["x"]
         IN  IF Skip(q) \/ "x" \notin JKeys(doc) \/ old = NULL THEN q
             ELSE LET n == New(q, q.h[old])
                  IN  Delete([n EXCEPT !.h[a].kids["x"] = n.ptr], old)

\* (mutant) a load that catches per key: after a child's load has failed the
\* loop goes on with the next key
properties_load_continue(m, a, doc) ==
    LET RECURSIVE Each(_, _)
        Each(mm, ks) ==
            IF Skip(mm) \/ ks = <<>> THEN mm
            ELSE LET k == Head(ks)
                     r == IF k \in Names /\ mm.h[a].kids[k] # NULL
                          THEN load(mm, mm.h[a].kids[k], doc.m[k]) ELSE mm
                 IN  Each([r EXCEPT !.exc = FALSE], Tail(ks))
    IN  IF Skip(m) THEN m ELSE Each(m, items(doc))

\* properties::load: the loop runs inside try; catch (std::exception&) logs
\* and returns.
properties_load(m, a, doc) ==
    IF Skip(m) THEN m
    ELSE LET r == LoadKeys(m, a, doc, items(doc))
         IN  IF r.exc THEN [r EXCEPT !.exc = FALSE] ELSE r

\* (mutant) a loop that allocates one object and stores it in every slot
load_each_alias(m, a, docs, i) ==
    IF Skip(m) \/ i > Len(m.h[a].elems) \/ i > Len(docs) THEN m
    ELSE LET n == IF i = 1 THEN Construct(m, m.h[a].cls, NoName)
                  ELSE [m EXCEPT !.ptr = m.h[a].elems[1]]
             r == IF Skip(n) THEN n ELSE [n EXCEPT !.h[a].elems[i] = n.ptr]
         IN  load_each_alias(load(r, n.ptr, docs[i]), a, docs, i + 1)

\* for_both(_container, l_json, ...) of the two container loads: each slot
\* gets new type(), which then loads the document element.
load_each(m, a, docs, i) ==
    IF Skip(m) \/ i > Len(m.h[a].elems) \/ i > Len(docs) THEN m
    ELSE LET n == Construct(m, m.h[a].cls, NoName)
             r == IF Skip(n) THEN n ELSE [n EXCEPT !.h[a].elems[i] = n.ptr]
         IN  load_each(load(r, n.ptr, docs[i]), a, docs, i + 1)

\* (mutant) a load that keeps the elements when the document array has as
\* many entries as the sequence has elements, and loads into them
container_load_inplace(m, a, doc) ==
    IF Skip(m) THEN m
    ELSE LET g == get_vector(doc)
             RECURSIVE Into(_, _)
             Into(mm, i) ==
                 IF Skip(mm) \/ i > Len(g.e) THEN mm
                 ELSE Into(load(mm, mm.h[a].elems[i], g.e[i]), i + 1)
         IN  IF ~g.ok THEN Throw(m)
             ELSE IF Len(g.e) = Len(m.h[a].elems)
                       /\ \A i \in DOMAIN m.h[a].elems : m.h[a].elems[i] # NULL
                  THEN Into(m, 1)
                  ELSE load_each(grow(m, a, Len(g.e)), a, g.e, 1)

\* property_container::load: get<std::vector<JSON>>(), grow(size), for_both.
container_load(m, a, doc) ==
    IF Skip(m) THEN m
    ELSE LET g == get_vector(doc)
         IN  IF ~g.ok THEN Throw(m)
             ELSE load_each(grow(m, a, Len(g.e)), a, g.e, 1)

\* property_array::load: get<std::array<JSON, size>>(), clear, for_both.
array_load(m, a, doc) ==
    IF Skip(m) THEN m
    ELSE LET g == get_array(doc)
         IN  IF ~g.ok THEN Throw(m)
             ELSE load_each(array_clear(m, a), a, g.e, 1)

\* virtual load
load_impl(m, a, doc) ==
    IF Skip(m) THEN m
    ELSE IF ~Live(m.h, a) THEN Undef(m)
    ELSE CASE m.h[a].kind = "scalar" -> property_load(m, a, doc)
           [] m.h[a].kind = "props"  -> properties_load(m, a, doc)
           [] m.h[a].kind = "seq"    -> container_load(m, a, doc)
           [] OTHER                  -> array_load(m, a, doc)

\* the dispatcher
Do(tag, m, a, b, d) ==
    CASE tag = "delete"    -> delete_impl(m, a)
      [] tag = "clone"     -> clone_impl(m, a)
      [] tag = "assign"    -> assign_impl(m, a, b)
      [] tag = "load"      -> load_impl(m, a, d)
      [] tag = "construct" -> construct_impl(m, a, b)
      [] OTHER             -> addfields_impl(m, a, d)

(***************************************************************************)
(* save.  A result is [j, exc, ub]: the document, or an exception, or      *)
(* undefined behaviour (a null or dangling element, a std::string built    *)
(* from a null name, front() of an empty value).                           *)
(***************************************************************************)
Saved(j)   == [j |-> j, exc |-> FALSE, ub |-> FALSE]
SaveUndef  == [j |-> JNull, exc |-> FALSE, ub |-> TRUE]
SaveThrow  == [j |-> JNull, exc |-> TRUE, ub |-> FALSE]
SaveOk(r)  == ~r.exc /\ ~r.ub

RECURSIVE save(_, _), MergeKids(_, _, _, _), save_each(_, _, _, _)

\* property<type>::save: JSON{ { _name, _value } }
property_save(h, a) ==
    IF h[a].name = NoName THEN SaveUndef
    ELSE Saved(JSet(JNull, h[a].name, JInt(h[a].val)))

\* properties::save, the loop: merge_JSON(parent, child->save()) over the map
MergeKids(h, a, acc, i) ==
    IF ~SaveOk(acc) \/ i > Len(MapOrder) THEN acc
    ELSE LET e == h[a].kids[MapOrder[i]]
         IN  IF e = NULL THEN MergeKids(h, a, acc, i + 1)
             ELSE LET s == save(h, e)
                      g == merge_JSON(acc.j, s.j)
                  IN  IF ~SaveOk(s) THEN s
                      ELSE IF ~g.ok THEN SaveThrow
                      ELSE MergeKids(h, a, Saved(g.j), i + 1)

\* (mutant) a save that never wraps the merged children under the name
properties_save_flat(h, a) == MergeKids(h, a, Saved(JNull), 1)

\* properties::save: named, l_obj[_name] = the merged children; anonymous,
\* the merged children themselves.
properties_save(h, a) ==
    LET p == MergeKids(h, a, Saved(JNull), 1)
    IN  IF ~SaveOk(p) \/ h[a].name = NoName THEN p
        ELSE Saved(JSet(JNull, h[a].name, p.j))

\* the loop of the two container saves: push_back(it->save().front())
save_each(h, a, acc, i) ==
    IF ~SaveOk(acc) \/ i > Len(h[a].elems) THEN acc
    ELSE LET e == h[a].elems[i]
         IN  IF e = NULL THEN SaveUndef
             ELSE LET s == save(h, e)
                      f == front(s.j)
                  IN  IF ~SaveOk(s) THEN s
                      ELSE IF ~f.ok THEN SaveUndef
                      ELSE save_each(h, a, Saved(JArr(Append(acc.j.e, f.j))), i + 1)

\* (mutant) a container save that files the array under the key "x",
\* whatever the container's name
container_save_x(h, a) ==
    IF ClassName(h[a].cls) = NoName THEN SaveUndef
    ELSE LET p == save_each(h, a, Saved(JArr(<<>>)), 1)
         IN  IF ~SaveOk(p) THEN p ELSE Saved(JSet(JNull, "x", p.j))

\* property_container::save and property_array::save (the same text):
\* std::string l_name(type().get_name()); named, l_obj[_name] = the array of
\* the elements' save().front(); anonymous, the elements are pushed onto l_obj
\* itself (which stays null when there are none).
container_save(h, a) ==
    IF ClassName(h[a].cls) = NoName THEN SaveUndef
    ELSE LET p == save_each(h, a, Saved(JArr(<<>>)), 1)
         IN  IF ~SaveOk(p) THEN p
             ELSE IF h[a].name # NoName THEN Saved(JSet(JNull, h[a].name, p.j))
             ELSE IF p.j.e = <<>> THEN Saved(JNull)
             ELSE p

\* virtual save
save(h, a) ==
    IF ~Live(h, a) THEN SaveUndef
    ELSE CASE h[a].kind = "scalar" -> property_save(h, a)
           [] h[a].kind = "props"  -> properties_save(h, a)
           [] OTHER                -> container_save(h, a)


(***************************************************************************)
(* The application: the objects it holds (root) and the calls it makes.    *)
(* Every call is one action; `last` records the call, its arguments, what  *)
(* it returned, and a window of the calls before it (hist, whose length    *)
(* the initial state fixes).  A call that executes undefined behaviour     *)
(* ends the run: no action is enabled once last.ub holds.                  *)
(***************************************************************************)
Call(op, x, y, key, doc, ret, m) ==
    [op |-> op, x |-> x, y |-> y, key |-> key, doc |-> doc, ret |-> ret,
     al |-> m.al, dl |-> m.dl, exc |-> m.exc, ub |-> m.ub \/ ret.ub,
     hist |-> <<>>]

NoCall == Call("init", NULL, NULL, NoName, JNull, Saved(JNull), Start(<<>>))

Shift(h, l) == IF h = <<>> THEN <<>> ELSE <<l>> \o SubSeq(h, 1, Len(h) - 1)

Record(c) == [c EXCEPT !.hist = Shift(last.hist, [last EXCEPT !.hist = <<>>])]

RECURSIVE Rep(_, _)
Rep(c, n) == IF n <= 0 THEN <<>> ELSE Append(Rep(c, n - 1), c)

WithHist(c, n) == [c EXCEPT !.hist = Rep(c, n)]

Running == ~last.ub

\* The files and std::cerr: files maps a path to what the file holds, err is
\* what the last call of load_JSON or save_JSON wrote to std::cerr.  The
\* operations on properties leave both alone.
NoFile  == [k |-> "none"]
Garbage == [k |-> "garbage"]
Text(j) == [k |-> "text", j |-> j]
NoIO    == [files |-> [p \in {"f"} |-> NoFile], err |-> <<>>]

\* A path outside the domain of files cannot be opened, for reading or for
\* writing (a directory that does not exist).
FileAt(f, path) == IF path \in DOMAIN f THEN f[path] ELSE NoFile

\* json::empty(): null, an object without keys, an array without elements
JEmpty(j) ==
    \/ j.t = "null"
    \/ j.t = "obj" /\ JKeys(j) = {}
    \/ j.t = "arr" /\ j.e = <<>>

\* load_JSON: the runtime_error for a stream that did not open is built and
\* not thrown, so JSON::parse runs in every case; on a stream that is not
\* open and on text that is no JSON it throws parse_error, which the catch
\* writes to std::cerr; JSON() is returned then.
\* (j: the value returned; err: what was written to std::cerr;
\*  exc: whether an exception left the call)
load_JSON(f, path) ==
    IF FileAt(f, path).k = "text"
    THEN [j |-> FileAt(f, path).j, err |-> <<>>, exc |-> FALSE]
    ELSE [j |-> JNull, err |-> <<"parse_error">>, exc |-> FALSE]

\* save_JSON: an empty document is reported and not written.  The
\* runtime_error for a stream that did not open is built and not thrown; the
\* insertion into a stream that is not open writes nothing and throws
\* nothing (the stream's exception mask is empty), so the try block ends
\* normally.
\* (f: the files afterwards)
save_JSON(f, path, obj) ==
    IF JEmpty(obj)
    THEN [f |-> f, err |-> <<"No file serialized: JSON object empty.">>, exc |-> FALSE]
    ELSE IF path \notin DOMAIN f
    THEN [f |-> f, err |-> <<>>, exc |-> FALSE]
    ELSE [f |-> [f EXCEPT ![path] = Text(obj)], err |-> <<>>, exc |-> FALSE]

\* The objects reachable from a through children and elements (live ones are
\* followed; d bounds the depth).
RECURSIVE Reach(_, _, _)
Reach(h, a, d) ==
    IF a = NULL THEN {}
    ELSE IF d = 0 \/ ~Live(h, a) THEN {a}
    ELSE {a} \cup UNION {Reach(h, h[a].kids[k], d - 1) : k \in Names}
             \cup UNION {Reach(h, h[a].elems[i], d - 1) : i \in DOMAIN h[a].elems}

Depth == 6     \* deeper than any object tree the classes can build

Tree(h, a) == Reach(h, a, Depth)

\* every object the application owns, directly or through an owner
Owned == UNION {Tree(heap, root[v]) : v \in DOMAIN root}

Nodes(kind) == {a \in Owned : Live(heap, a) /\ heap[a].kind = kind}

Commit(m, r, c) ==
    /\ ~m.oom
    /\ heap' = m.h
    /\ root' = r
    /\ last' = Record(c)
    /\ io' = io

\* T v;  or  properties v(name);
Build(v, c, name) ==
    /\ Running /\ root[v] = NULL
    /\ LET m == Construct(Start(heap), c, name)
       IN  Commit(m, [root EXCEPT ![v] = m.ptr],
                  Call("build", m.ptr, NULL, NoName, JNull, Saved(JNull), m))

\* v goes out of scope / delete v
Destroy(v) ==
    /\ Running /\ root[v] # NULL
    /\ LET m == Delete(Start(heap), root[v])
       IN  Commit(m, [root EXCEPT ![v] = NULL],
                  Call("destroy", root[v], NULL, NoName, JNull, Saved(JNull), m))

\* a write through the reference add returned (a scalar's _value)
Write(x, v) ==
    /\ Running
    /\ LET m == [Start(heap) EXCEPT !.h[x].val = v]
       IN  Commit(m, root, Call("write", x, v, NoName, JNull, Saved(JNull), m))

\* x.load(d)
Load(x, d) ==
    /\ Running
    /\ LET m == load(Start(heap), x, d)
       IN  Commit(m, root, Call("load", x, NULL, NoName, d, Saved(JNull), m))

\* x.save()
Save(x) ==
    /\ Running
    /\ LET m == Start(heap)
       IN  Commit(m, root, Call("save", x, NULL, NoName, JNull, save(heap, x), m))

\* x.assign(y)
Assign(x, y) ==
    /\ Running
    /\ LET m == assign(Start(heap), x, y)
       IN  Commit(m, root, Call("assign", x, y, NoName, JNull, Saved(JNull), m))

\* v = x.clone()
Clone(x, v) ==
    /\ Running /\ root[v] = NULL
    /\ LET m == clone(Start(heap), x)
       IN  Commit(m, [root EXCEPT ![v] = IF Skip(m) THEN NULL ELSE m.ptr],
                  Call("clone", x, IF Skip(m) THEN NULL ELSE m.ptr, NoName, JNull,
                       Saved(JNull), m))

\* T v;  v.load(x.save());   with T the class of x
RoundTrip(x, v) ==
    /\ Running /\ root[v] = NULL
    /\ LET s == save(heap, x)
           c == Construct(Start(heap), heap[x].cls, heap[x].name)
           m == IF SaveOk(s) THEN load(c, c.ptr, s.j) ELSE c
       IN  Commit(m, [root EXCEPT ![v] = c.ptr],
                  Call("roundtrip", c.ptr, x, NoName, s.j, s, m))

\* p.add<...>(...) for one member description f
AddField(p, f) ==
    /\ Running
    /\ LET m == AddFields(Start(heap), p, <<f>>)
       IN  Commit(m, root, Call("add", p, IF Skip(m) THEN NULL ELSE m.ptr,
                                IF f.k = "agg" THEN ClassName(f.of) ELSE f.name,
                                JInt(f.def), Saved(JNull), m))

\* p.remove(n)
Remove(p, n) ==
    /\ Running
    /\ LET m == properties_remove(Start(heap), p, n)
       IN  Commit(m, root, Call("remove", p, NULL, n, JNull, Saved(JNull), m))

Heap0 == [a \in Addr |-> NoCell]


(***************************************************************************)
(* Documents offered to load.                                              *)
(***************************************************************************)
Obj1(k, v)             == JObj([x \in {k} |-> v])
Obj2(k1, v1, k2, v2)   == JObj([x \in {k1, k2} |-> IF x = k1 THEN v1 ELSE v2])
Obj3(k1, v1, k2, v2, k3, v3) ==
    JObj([x \in {k1, k2, k3} |-> IF x = k1 THEN v1 ELSE IF x = k2 THEN v2 ELSE v3])
ObjEmpty               == JObj([x \in {} |-> JNull])

\* documents for a Leaf: its key, its key with unconvertible or convertible
\* non-integer values, no key, an unknown key
LeafDocs ==
    { Obj1("x", JInt(1)), Obj1("x", JInt(2)), Obj1("x", JStr("s")),
      Obj1("x", JBool(TRUE)), ObjEmpty, Obj2("x", JInt(1), "zz", JInt(2)),
      Obj1("zz", JInt(1)) }

(***************************************************************************)
(* SpecEx: the usage example of property.h.  One object e of a class with  *)
(* one integer member ("Leaf", member "x", default 0) is loaded, written   *)
(* through the reference add returned, and saved.                          *)
(***************************************************************************)
ExWindow == 2

InitEx ==
    LET m == Construct(Start(Heap0), "Leaf", NoName)
    IN  /\ heap = m.h
        /\ root = [v \in {"e"} |-> m.ptr]
        /\ last = WithHist(NoCall, ExWindow)
        /\ io = NoIO

ExLoad  == \E d \in LeafDocs : Load(root["e"], d)
ExWrite == \E x \in Nodes("scalar"), v \in 0..MaxVal : Write(x, v)
ExSave  == Save(root["e"])

NextEx == ExLoad \/ ExWrite \/ ExSave

SpecEx == InitEx /\ [][NextEx]_vars


(***************************************************************************)
(* SpecAgg: an aggregate a of class Example or Anon and a second one, b,   *)
(* which is a Pair or a fresh object of a's class that loaded a.save().    *)
(* Both are written, loaded and assigned to one another.                   *)
(***************************************************************************)
AggDocs ==
    { ObjEmpty,
      Obj1("Name", JInt(1)),
      Obj2("Name", JInt(2), "Leaf", Obj1("x", JInt(1))),
      Obj2("Leaf", Obj1("x", JInt(2)), "zz", JInt(1)),
      Obj2("Name", JStr("s"), "x", JInt(2)),
      Obj2("Leaf", Obj1("x", JStr("s")), "Name", JInt(1)),
      Obj2("Leaf", JInt(2), "x", JInt(1)),
      Obj1("Example", Obj1("Name", JInt(1))) }

InitAgg ==
    \E c \in {"Example", "Anon"} :
        LET m == Construct(Start(Heap0), c, NoName)
        IN  /\ heap = m.h
            /\ root = [v \in {"a", "b"} |-> IF v = "a" THEN m.ptr ELSE NULL]
            /\ last = WithHist(NoCall, 0)
            /\ io = NoIO

AggBuild     == Build("b", "Pair", NoName)
AggWrite     == \E x \in Nodes("scalar"), v \in 0..MaxVal : Write(x, v)
AggLoad      == \E v \in {"a", "b"}, d \in AggDocs : root[v] # NULL /\ Load(root[v], d)
AggAssign    == \E v, w \in {"a", "b"} :
                   v # w /\ root[v] # NULL /\ root[w] # NULL /\ Assign(root[v], root[w])
AggRoundTrip == root["a"] # NULL /\ RoundTrip(root["a"], "b")
AggDestroy   == Destroy("b")

NextAgg == AggBuild \/ AggWrite \/ AggLoad \/ AggAssign \/ AggRoundTrip \/ AggDestroy

SpecAgg == InitAgg /\ [][NextAgg]_vars


(***************************************************************************)
(* SpecDyn: one Registry properties("P") that members are added to and     *)
(* removed from at run time: scalars "x" and "Name", a scalar registered   *)
(* under the name "Leaf", and a nested aggregate Leaf.  Scalars are        *)
(* written and the Registry is saved in between.  last.hist holds the one  *)
(* call before the last.                                                   *)
(***************************************************************************)
DynFields ==
    {Field("int", n, d, "int") : n \in {"x", "Leaf"}, d \in 0..MaxVal}
       \cup {Field("agg", "Leaf", 0, "Leaf")}

DynNames == {"x", "Leaf", "S"}

InitDyn ==
    LET m == Construct(Start(Heap0), "properties", "P")
    IN  /\ heap = m.h
        /\ root = [v \in {"p"} |-> m.ptr]
        /\ last = WithHist(NoCall, 1)
        /\ io = NoIO

DynAdd    == \E f \in DynFields : AddField(root["p"], f)
DynRemove == \E n \in DynNames : Remove(root["p"], n)
DynWrite  == \E x \in Nodes("scalar"), v \in 0..MaxVal : Write(x, v)
DynSave   == Save(root["p"])

NextDyn == DynAdd \/ DynRemove \/ DynWrite \/ DynSave

SpecDyn == InitDyn /\ [][NextDyn]_vars


(***************************************************************************)
(* SpecBox: a Registry a, named "P" or anonymous, with a scalar "Name" and *)
(* an aggregate Box, which holds a sequence S and an array A of Leaf.      *)
(* The sequence, the array and the Registry load documents, "Name" is      *)
(* written, and every object of the tree is saved.                         *)
(***************************************************************************)
\* the element documents {"x": k}, {"x": k+1}, ... of an array of length n
RECURSIVE ElemDocs(_, _)
ElemDocs(n, k) ==
    IF n <= 0 THEN <<>>
    ELSE Append(ElemDocs(n - 1, k), Obj1("x", JInt((n - 1 + k) % (MaxVal + 1))))

SeqDocs ==
    {JArr(ElemDocs(n, k)) : n \in 0..MaxLen, k \in 0..1}
       \cup {JArr(<<ObjEmpty, Obj1("x", JStr("s"))>>), JInt(1)}

ArrDocs ==
    {JArr(ElemDocs(n, 1)) : n \in (ArrN - 1)..(ArrN + 1)}
       \cup {JArr(<<ObjEmpty, Obj1("x", JInt(1))>>), ObjEmpty}

BoxDocs ==
    { Obj1("Name", JInt(1)),
      Obj2("Name", JStr("s"), "Box", Obj1("S", JArr(ElemDocs(1, 1)))),
      Obj1("Box", Obj2("A", JArr(ElemDocs(1, 1)), "S", JArr(ElemDocs(2, 0)))) }

InitBox ==
    \E nm \in {"P", NoName} :
        LET c == Construct(Start(Heap0), "properties", nm)
            m == AddFields(c, c.ptr, <<Field("int", "Name", 0, "int"),
                                       Field("agg", "Box", 0, "Box")>>)
        IN  /\ heap = m.h
            /\ root = [v \in {"a"} |-> c.ptr]
            /\ last = WithHist(NoCall, 0)
            /\ io = NoIO

BoxLoadSeq == \E x \in Nodes("seq"), d \in SeqDocs : Load(x, d)
BoxLoadArr == \E x \in Nodes("arr"), d \in ArrDocs : Load(x, d)
BoxLoad    == \E d \in BoxDocs : Load(root["a"], d)
BoxWrite   == \E x \in Nodes("scalar"), v \in 0..MaxVal :
                  heap[x].name = "Name" /\ Write(x, v)
BoxSave    == \E x \in Owned : Save(x)

NextBox == BoxLoadSeq \/ BoxLoadArr \/ BoxLoad \/ BoxWrite \/ BoxSave

SpecBox == InitBox /\ [][NextBox]_vars


(***************************************************************************)
(* SpecClone: the Registry "P" of SpecBox as a, and c, a clone of any      *)
(* object of a's tree.  The application loads the sequence and the array   *)
(* of a, removes the sequence from the Box, clones an object, writes one   *)
(* scalar of either tree, and destroys the clone before it goes on.        *)
(***************************************************************************)
CloneSeqDocs == {JArr(<<>>), JArr(<<Obj1("x", JInt(1)), Obj1("x", JInt(0))>>)}
CloneArrDocs == {JArr(ElemDocs(ArrN, 1))}

InitClone ==
    LET c == Construct(Start(Heap0), "properties", "P")
        m == AddFields(c, c.ptr, <<Field("int", "Name", 0, "int"),
                                   Field("agg", "Box", 0, "Box")>>)
    IN  /\ heap = m.h
        /\ root = [v \in {"a", "c"} |-> IF v = "a" THEN c.ptr ELSE NULL]
        /\ last = WithHist(NoCall, 0)
        /\ io = NoIO

CloneLoadSeq == \E x \in Nodes("seq"), d \in CloneSeqDocs :
                    root["c"] = NULL /\ Load(x, d)
CloneLoadArr == \E x \in Nodes("arr"), d \in CloneArrDocs :
                    root["c"] = NULL /\ Load(x, d)
CloneRemove  == \E p \in Nodes("props") :
                    root["c"] = NULL /\ heap[p].cls = "Box" /\ Remove(p, "S")
CloneWrite   == \E x \in Nodes("scalar"), v \in 0..MaxVal :
                    last.op = "clone" /\ Write(x, v)
CloneAny     == \E x \in Tree(heap, root["a"]) : Clone(x, "c")
CloneDestroy == Destroy("c")

NextClone ==
    CloneLoadSeq \/ CloneLoadArr \/ CloneRemove \/ CloneWrite \/ CloneAny \/ CloneDestroy

SpecClone == InitClone /\ [][NextClone]_vars


(***************************************************************************)
(* SpecSeq: two sequences of Leaf, s (named "S") and t (named "T"), that   *)
(* the application declares on their own.  t loads document arrays of      *)
(* 0..MaxLen elements (and one whose first element holds a string where    *)
(* the integer is expected) and gets a null slot appended through the      *)
(* reference to its container (get_container().push_back(nullptr)); each   *)
(* of the two is assigned from the other, so s takes every length and      *)
(* shape t had.                                                            *)
(***************************************************************************)
SeqLoadDocs ==
    {JArr(ElemDocs(n, 1)) : n \in 0..MaxLen}
       \cup {JArr(<<Obj1("x", JStr("s")), Obj1("x", JInt(1))>>)}

InitSeq ==
    LET s == New(Start(Heap0), SeqCell("Leaf", "S"))
        t == New(s, SeqCell("Leaf", "T"))
    IN  /\ heap = t.h
        /\ root = [v \in {"s", "t"} |-> IF v = "s" THEN s.ptr ELSE t.ptr]
        /\ last = WithHist(NoCall, 0)
        /\ io = NoIO

\* x.get_container().push_back(nullptr)
PushNull(x) ==
    /\ Running
    /\ LET m == [Start(heap) EXCEPT !.h[x].elems = Append(@, NULL)]
       IN  Commit(m, root, Call("push", x, NULL, NoName, JNull, Saved(JNull), m))

SeqLoad   == \E d \in SeqLoadDocs : Load(root["t"], d)
SeqPush   == Len(heap[root["t"]].elems) < MaxLen /\ PushNull(root["t"])
SeqAssign == \E v, w \in {"s", "t"} : v # w /\ Assign(root[v], root[w])

NextSeq == SeqLoad \/ SeqPush \/ SeqAssign

SpecSeq == InitSeq /\ [][NextSeq]_vars


(***************************************************************************)
(* SpecAnon: a Registry properties("P") to which the application adds a    *)
(* scalar "x", the named aggregate Leaf and the unnamed aggregate Anon     *)
(* (add<Anon>(Anon()), the add(const properties&) template), and which it  *)
(* writes and saves in between.                                            *)
(***************************************************************************)
AnonFields ==
    {Field("int", "x", d, "int") : d \in 0..MaxVal}
       \cup {Field("agg", "Leaf", 0, "Leaf"), Field("agg", "Anon", 0, "Anon")}

InitAnon ==
    LET m == Construct(Start(Heap0), "properties", "P")
    IN  /\ heap = m.h
        /\ root = [v \in {"p"} |-> m.ptr]
        /\ last = WithHist(NoCall, 0)
        /\ io = NoIO

AnonAdd   == \E f \in AnonFields : AddField(root["p"], f)
AnonWrite == \E x \in Nodes("scalar"), v \in 0..MaxVal : Write(x, v)
AnonSave  == Save(root["p"])

NextAnon == AnonAdd \/ AnonWrite \/ AnonSave

SpecAnon == InitAnon /\ [][NextAnon]_vars


(***************************************************************************)
(* SpecKinds: one object of each kind, declared on its own: a scalar n     *)
(* (property<int>), a sequence q and an array r of Leaf, all three either  *)
(* without a name or named "x", "S", "A", and a Registry p of class Leaf.  *)
(* Each loads documents of every JSON type, n is written, and each is      *)
(* assigned from each of the others.                                       *)
(***************************************************************************)
KindsDocs ==
    { JInt(1), JBool(TRUE), JStr("s"), ObjEmpty, Obj1("x", JInt(1)),
      JArr(<<>>), JArr(ElemDocs(ArrN, 1)) }

KindsVars == {"n", "q", "r", "p"}

InitKinds ==
    \E named \in BOOLEAN :
        LET nm(s) == IF named THEN s ELSE NoName
            n == New(Start(Heap0), ScalarCell("int", nm("x"), 0))
            q == New(n, SeqCell("Leaf", nm("S")))
            r == New(q, ArrCell("Leaf", nm("A")))
            p == Construct(r, "Leaf", NoName)
        IN  /\ heap = p.h
            /\ root = [v \in KindsVars |->
                          CASE v = "n" -> n.ptr [] v = "q" -> q.ptr
                            [] v = "r" -> r.ptr [] OTHER -> p.ptr]
            /\ last = WithHist(NoCall, 0)
            /\ io = NoIO

KindsLoad   == \E v \in KindsVars, d \in KindsDocs : Load(root[v], d)
KindsWrite  == \E v \in 0..MaxVal : Write(root["n"], v)
KindsAssign == \E v, w \in KindsVars : v # w /\ Assign(root[v], root[w])

NextKinds == KindsLoad \/ KindsWrite \/ KindsAssign

SpecKinds == InitKinds /\ [][NextKinds]_vars


(***************************************************************************)
(* SpecElems: a sequence "S" and an array "A" whose element type T is the  *)
(* named aggregate Leaf (one field) or the unnamed aggregate Anon (a       *)
(* scalar and a nested aggregate).  Both load document arrays whose        *)
(* objects carry exactly T's declared keys with integer values, and both   *)
(* are saved.                                                              *)
(***************************************************************************)
\* the document of one element of class c: every declared key, values from k
ElemDoc(c, k) ==
    IF c = "Leaf" THEN Obj1("x", JInt(k))
    ELSE Obj2("Name", JInt(k), "Leaf", Obj1("x", JInt(MaxVal - k)))

\* the document array of n elements of class c with the values k, k+1, ...
RECURSIVE ElemArray(_, _, _)
ElemArray(c, n, k) ==
    IF n = 0 THEN <<>>
    ELSE Append(ElemArray(c, n - 1, k), ElemDoc(c, (n - 1 + k) % (MaxVal + 1)))

ElemArrays(c, n) == {ElemArray(c, n, k) : k \in 0..1}

InitElems ==
    \E c \in {"Leaf", "Anon"} :
        LET q == New(Start(Heap0), SeqCell(c, "S"))
            r == New(q, ArrCell(c, "A"))
        IN  /\ heap = r.h
            /\ root = [v \in {"q", "r"} |-> IF v = "q" THEN q.ptr ELSE r.ptr]
            /\ last = WithHist(NoCall, 0)
            /\ io = NoIO

ElemsLoadSeq == \E n \in 0..MaxLen : \E d \in ElemArrays(heap[root["q"]].cls, n) :
                    Load(root["q"], JArr(d))
ElemsLoadArr == \E d \in ElemArrays(heap[root["r"]].cls, ArrN) :
                    Load(root["r"], JArr(d))
ElemsSave    == \E v \in {"q", "r"} : Save(root[v])

NextElems == ElemsLoadSeq \/ ElemsLoadArr \/ ElemsSave

SpecElems == InitElems /\ [][NextElems]_vars


(***************************************************************************)
(* SpecTwin: sequences s, t and arrays a, b of Leaf, driven in pairs: every *)
(* call made on s (t) is made on a (b) as well, with the same arguments.   *)
(* The sequences start with ArrN null slots (get_container().resize(ArrN)),*)
(* the arrays as constructed.  The pair s, a loads document arrays of ArrN *)
(* elements; the pairs are assigned from one another and saved, and the    *)
(* pair t, b is destroyed and made anew as clones of s, a.                 *)
(***************************************************************************)
TwinDocs == {JArr(ElemDocs(ArrN, k)) : k \in 0..1}

\* the array that goes with sequence variable v
Twin(v) == IF v = "s" THEN "a" ELSE "b"

InitTwin ==
    LET s == New(Start(Heap0), [SeqCell("Leaf", "S") EXCEPT !.elems = Nulls(ArrN)])
        t == New(s, [SeqCell("Leaf", "S") EXCEPT !.elems = Nulls(ArrN)])
        a == New(t, ArrCell("Leaf", "A"))
        b == New(a, ArrCell("Leaf", "A"))
    IN  /\ heap = b.h
        /\ root = [v \in {"s", "t", "a", "b"} |->
                      CASE v = "s" -> s.ptr [] v = "t" -> t.ptr
                        [] v = "a" -> a.ptr [] OTHER -> b.ptr]
        /\ last = WithHist(NoCall, 0)
        /\ io = NoIO

\* s.load(d); a.load(d)
TwinLoad ==
    \E d \in TwinDocs :
        /\ Running
        /\ LET m1 == load(Start(heap), root["s"], d)
               m2 == load(m1, root["a"], d)
           IN  Commit(m2, root, Call("load", root["s"], root["a"], NoName, d,
                                     Saved(JNull), m2))

\* v.assign(w); Twin(v).assign(Twin(w))
TwinAssign ==
    \E v, w \in {"s", "t"} :
        /\ Running /\ v # w /\ root[v] # NULL /\ root[w] # NULL
        /\ LET m1 == assign(Start(heap), root[v], root[w])
               m2 == assign(m1, root[Twin(v)], root[Twin(w)])
           IN  Commit(m2, root, Call("assign", root[v], root[Twin(v)], NoName, JNull,
                                     Saved(JNull), m2))

\* v.save(); Twin(v).save()
TwinSave ==
    \E v \in {"s", "t"} :
        /\ Running /\ root[v] # NULL
        /\ LET r1 == save(heap, root[v])
               r2 == save(heap, root[Twin(v)])
           IN  Commit(Start(heap), root,
                      Call("save", root[v], root[Twin(v)], NoName, JNull,
                           IF SaveOk(r1) THEN r2 ELSE r1, Start(heap)))

\* delete t; delete b
TwinDestroy ==
    /\ Running /\ root["t"] # NULL
    /\ LET m1 == Delete(Start(heap), root["t"])
           m2 == Delete(m1, root["b"])
       IN  Commit(m2, [root EXCEPT !["t"] = NULL, !["b"] = NULL],
                  Call("destroy", root["t"], root["b"], NoName, JNull, Saved(JNull), m2))

\* t = s.clone(); b = a.clone()
TwinClone ==
    /\ Running /\ root["t"] = NULL
    /\ LET m1 == clone(Start(heap), root["s"])
           m2 == clone(m1, root["a"])
       IN  Commit(m2, [root EXCEPT !["t"] = IF Skip(m2) THEN NULL ELSE m1.ptr,
                                   !["b"] = IF Skip(m2) THEN NULL ELSE m2.ptr],
                  Call("clone", root["s"], root["a"], NoName, JNull, Saved(JNull), m2))

NextTwin == TwinLoad \/ TwinAssign \/ TwinSave \/ TwinDestroy \/ TwinClone

SpecTwin == InitTwin /\ [][NextTwin]_vars


(***************************************************************************)
(* SpecReload: a sequence q ("S") and an array r ("A") of Leaf, declared   *)
(* on their own, that load one document array after another; the document *)
(* objects hold the key "x" or no key.  last.hist holds the one call       *)
(* before the last.                                                        *)
(***************************************************************************)
\* the document arrays of n objects, each {"x": 1} or {}
RECURSIVE SparseArrays(_)
SparseArrays(n) ==
    IF n = 0 THEN {<<>>}
    ELSE {Append(a, d) : a \in SparseArrays(n - 1), d \in {ObjEmpty, Obj1("x", JInt(1))}}

InitReload ==
    LET q == New(Start(Heap0), SeqCell("Leaf", "S"))
        r == New(q, ArrCell("Leaf", "A"))
    IN  /\ heap = r.h
        /\ root = [v \in {"q", "r"} |-> IF v = "q" THEN q.ptr ELSE r.ptr]
        /\ last = WithHist(NoCall, 1)
        /\ io = NoIO

ReloadSeq == \E n \in 0..ArrN : \E d \in SparseArrays(n) : Load(root["q"], JArr(d))
ReloadArr == \E d \in SparseArrays(ArrN) : Load(root["r"], JArr(d))

NextReload == ReloadSeq \/ ReloadArr

SpecReload == InitReload /\ [][NextReload]_vars


(***************************************************************************)
(* SpecNull: two sequences of Leaf, s and t, that start empty and are      *)
(* loaded (t), assigned from t (s and t itself) and cloned; c holds the     *)
(* clone.  Nothing else writes their element lists.                        *)
(***************************************************************************)
InitNull ==
    LET s == New(Start(Heap0), SeqCell("Leaf", "S"))
        t == New(s, SeqCell("Leaf", "S"))
    IN  /\ heap = t.h
        /\ root = [v \in {"s", "t", "c"} |->
                     IF v = "s" THEN s.ptr ELSE IF v = "t" THEN t.ptr ELSE NULL]
        /\ last = WithHist(NoCall, 0)
        /\ io = NoIO

NullLoad    == \E d \in SeqLoadDocs : Load(root["t"], d)
NullAssign  == \E v \in {"s", "t"} : Assign(root[v], root["t"])
NullClone   == \E v \in {"s", "t"} : Clone(root[v], "c")
NextNull == NullLoad \/ NullAssign \/ NullClone

SpecNull == InitNull /\ [][NextNull]_vars


(***************************************************************************)
(* SpecMerge: merge_JSON on its own.  The caller holds one document (the   *)
(* parent, last.ret.j) and merges one addition after another into it; an   *)
(* exception that leaves merge_JSON is caught by the caller.  last.doc is  *)
(* the addition of the last call and last.hist[1] the call before, whose   *)
(* ret.j is the parent the last call was given.                            *)
(***************************************************************************)
MergeKeys == {"A", "x"}
MergeVals == {JInt(1), Obj1("x", JInt(0)), Obj1("A", JInt(1))}
MergeObjs == UNION {[ks -> MergeVals] : ks \in SUBSET MergeKeys}

InitMerge ==
    \E p \in {JObj(f) : f \in MergeObjs} \cup {JNull, JInt(1)} :
        /\ heap = Heap0
        /\ root = [v \in {"a"} |-> NULL]
        /\ last = WithHist(Call("init", NULL, NULL, NoName, JNull, Saved(p),
                                Start(Heap0)), 1)
        /\ io = NoIO

\* merge_JSON(parent, add)
Merge(add) ==
    /\ Running
    /\ LET g == merge_JSON(last.ret.j, add)
           m == IF g.ok THEN Start(heap) ELSE Throw(Start(heap))
       IN  Commit(m, root, Call("merge", NULL, NULL, NoName, add, Saved(g.j), m))

MergeObj   == \E f \in MergeObjs : Merge(JObj(f))
MergeOther == \E d \in {JNull, JInt(1), JArr(<<>>), JArr(<<JInt(1)>>)} : Merge(d)

NextMerge == MergeObj \/ MergeOther

SpecMerge == InitMerge /\ [][NextMerge]_vars


(***************************************************************************)
(* SpecIO: load_JSON and save_JSON on their own.  The file "f" can be      *)
(* opened; at the start it is missing, holds text that is no JSON, or      *)
(* holds a document.  The path "nodir/f" lies in a directory that does not *)
(* exist.  last.key is the path of the last call, last.doc the document    *)
(* handed to save_JSON and last.ret.j the document load_JSON returned.     *)
(***************************************************************************)
IoPaths == {"f", "nodir/f"}
IoDocs  == {JObj(f) : f \in MergeObjs} \cup {JNull, JArr(<<>>)}

InitIO ==
    \E c \in {NoFile, Garbage, Text(Obj1("x", JInt(1)))} :
        /\ heap = Heap0
        /\ root = [v \in {"a"} |-> NULL]
        /\ last = WithHist(NoCall, 0)
        /\ io = [files |-> [p \in {"f"} |-> c], err |-> <<>>]

\* JSON l_json = load_JSON(path);
IoLoad ==
    \E path \in IoPaths :
        /\ Running
        /\ LET g == load_JSON(io.files, path)
               m == IF g.exc THEN Throw(Start(heap)) ELSE Start(heap)
           IN  /\ heap' = heap /\ root' = root
               /\ io' = [files |-> io.files, err |-> g.err]
               /\ last' = Record(Call("load_JSON", NULL, NULL, path, JNull,
                                      Saved(g.j), m))

\* save_JSON(path, obj);
IoSave ==
    \E path \in IoPaths, obj \in IoDocs :
        /\ Running
        /\ LET g == save_JSON(io.files, path, obj)
               m == IF g.exc THEN Throw(Start(heap)) ELSE Start(heap)
           IN  /\ heap' = heap /\ root' = root
               /\ io' = [files |-> g.f, err |-> g.err]
               /\ last' = Record(Call("save_JSON", NULL, NULL, path, obj,
                                      Saved(JNull), m))

NextIO == IoLoad \/ IoSave

SpecIO == InitIO /\ [][NextIO]_vars


(***************************************************************************)
(* SpecReg: a Registry p = properties("P") that starts with an aggregate   *)
(* Leaf; a scalar "x", a sequence "S" of Leaf and an aggregate without a   *)
(* name are added at run time, and "x", "S" and Leaf are removed; next to  *)
(* it a Registry q that holds all three from the start.  p is loaded,      *)
(* assigned from q, cloned (c holds the clone) and saved.                  *)
(***************************************************************************)
RegFields ==
    << Field("int", "x", 0, "int"), Field("agg", "Leaf", 0, "Leaf"),
       Field("seq", "S", 0, "Leaf") >>

\* the last document offers "S" a value that is no array, between a value
\* for Leaf before it and a value for "x" after it
RegDocs ==
    { Obj2("x", JInt(1), "S", JArr(<<Obj1("x", JInt(1))>>)),
      Obj1("Leaf", Obj1("x", JInt(1))),
      Obj3("Leaf", Obj1("x", JInt(1)), "S", JInt(1), "x", JInt(1)) }

InitReg ==
    LET p == Construct(Start(Heap0), "properties", "P")
        l == AddFields(p, p.ptr, <<RegFields[2]>>)
        q == Construct(l, "properties", "Q")
        m == AddFields(q, q.ptr, RegFields)
    IN  /\ heap = m.h
        /\ root = [v \in {"p", "q", "c"} |->
                     IF v = "p" THEN p.ptr ELSE IF v = "q" THEN q.ptr ELSE NULL]
        /\ last = WithHist(NoCall, 0)
        /\ io = NoIO

\* while the clone c exists nothing else happens
NoClone == root["c"] = NULL

RegAdd     == \E i \in {1, 3} : NoClone /\ AddField(root["p"], RegFields[i])
RegAddAnon == NoClone /\ AddField(root["p"], Field("agg", "Anon", 0, "Anon"))
RegRemove  == \E n \in {"x", "Leaf", "S"} : NoClone /\ Remove(root["p"], n)
RegLoad    == \E d \in RegDocs : NoClone /\ Load(root["p"], d)
RegAssign  == NoClone /\ Assign(root["p"], root["q"])
RegClone   == Clone(root["p"], "c")
RegDestroy == Destroy("c")
RegSave    == NoClone /\ Save(root["p"])

NextReg ==
    RegAdd \/ RegAddAnon \/ RegRemove \/ RegLoad \/ RegAssign
        \/ RegClone \/ RegDestroy \/ RegSave

SpecReg == InitReg /\ [][NextReg]_vars


(***************************************************************************)
(* SpecSelf: the Registry of SpecClone (a scalar "Name" and a Box with the *)
(* sequence "S" and the array "A"), whose containers are loaded, whose     *)
(* scalar is written, and every node of which is assigned from itself.     *)
(***************************************************************************)
InitSelf ==
    LET c == Construct(Start(Heap0), "properties", "P")
        m == AddFields(c, c.ptr, <<Field("int", "Name", 0, "int"),
                                   Field("agg", "Box", 0, "Box")>>)
    IN  /\ heap = m.h
        /\ root = [v \in {"a"} |-> c.ptr]
        /\ last = WithHist(NoCall, 0)
        /\ io = NoIO

SelfLoadSeq == \E x \in Nodes("seq"), d \in CloneSeqDocs : Load(x, d)
SelfLoadArr == \E x \in Nodes("arr"), d \in CloneArrDocs : Load(x, d)
SelfWrite   == \E x \in Nodes("scalar"), v \in 0..MaxVal :
                   heap[x].name = "Name" /\ Write(x, v)
\* x.assign(x)
SelfAssign  == \E x \in Owned : Live(heap, x) /\ Assign(x, x)

NextSelf == SelfLoadSeq \/ SelfLoadArr \/ SelfWrite \/ SelfAssign

SpecSelf == InitSelf /\ [][NextSelf]_vars


(***************************************************************************)
(* Helpers for stating the claims.                                         *)
(***************************************************************************)
\* the children registered in object a
KidNames(h, a) == {k \in Names : h[a].kids[k] # NULL}

\* objects a (in heap h1) and b (in heap h2) hold equal values at every depth:
\* equal scalars, the same child names with equal children, the same number
\* of elements with equal elements (a null slot matches a null slot only)
RECURSIVE SameValues(_, _, _, _)
SameValues(h1, a, h2, b) ==
    IF a = NULL \/ b = NULL THEN a = b
    ELSE /\ h1[a].kind = h2[b].kind
         /\ h1[a].val = h2[b].val
         /\ KidNames(h1, a) = KidNames(h2, b)
         /\ \A k \in KidNames(h1, a) : SameValues(h1, h1[a].kids[k], h2, h2[b].kids[k])
         /\ Len(h1[a].elems) = Len(h2[b].elems)
         /\ \A i \in DOMAIN h1[a].elems : SameValues(h1, h1[a].elems[i], h2, h2[b].elems[i])

\* nothing in the subtree of a changes in this step
Untouched(a) == \A c \in Tree(heap, a) : heap'[c] = heap[c]

\* how often address a occurs in the sequence s
Count(s, a) == Cardinality({i \in DOMAIN s : s[i] = a})

\* what object a contributes to its owner's document: the value under its name
Contribution(h, a) == front(save(h, a).j).j

(***************************************************************************)
(* C1  Round trip: a fresh object B of A's class that loads A.save() holds *)
(* A's field values at every depth.                                        *)
(* Stated as the claim; SpecAgg refutes it for a named aggregate, whose    *)
(* save() wraps the fields under its own name while load() looks the       *)
(* document's top-level keys up among the fields.                          *)
(***************************************************************************)
C1_RoundTrip ==
    (last.op = "roundtrip" /\ ~last.ub) => SameValues(heap, last.x, heap, last.y)

(***************************************************************************)
(* C2  The usage example: after load(d) with the member's key in d the     *)
(* reference add returned reads d's value (a boolean as 0 or 1); after a   *)
(* write of v through the reference, save() is exactly {R: {F: v}}.        *)
(***************************************************************************)
ExObj == root["e"]
ExVal == heap[heap[ExObj].kids["x"]].val

C2_LoadWriteSave ==
    /\ (last.op = "load" /\ "x" \in JKeys(last.doc) /\ last.doc.m["x"].t = "int")
          => ExVal = last.doc.m["x"].i
    /\ (last.op = "load" /\ "x" \in JKeys(last.doc) /\ last.doc.m["x"].t = "bool")
          => ExVal = IF last.doc.m["x"].b THEN 1 ELSE 0
    /\ last.op = "write" => ExVal = last.y
    /\ (last.op = "save" /\ last.hist[1].op = "write")
          => last.ret = Saved(Obj1("Leaf", Obj1("x", JInt(last.hist[1].y))))

\* load({"x": 1}), then a write of another value v, then save() = {"Leaf": {"x": v}}
C2_Witness ==
    /\ last.op = "save" /\ last.hist[1].op = "write" /\ last.hist[2].op = "load"
    /\ last.hist[2].doc = Obj1("x", JInt(1))
    /\ last.hist[1].y # 1
    /\ last.ret = Saved(Obj1("Leaf", Obj1("x", JInt(last.hist[1].y))))

(***************************************************************************)
(* C3  Partial load: Registry.load(d) of a document object d lets no error *)
(* out, leaves the set of registered children as it was (in the Registry   *)
(* and in every Registry below it), and leaves every child whose name is   *)
(* not a key of d exactly as it was.                                       *)
(***************************************************************************)
C3_PartialLoad ==
    [][ (last'.op = "load" /\ heap[last'.x].kind = "props" /\ last'.doc.t = "obj")
        => /\ ~last'.exc /\ ~last'.ub
           /\ \A c \in Tree(heap, last'.x) :
                 /\ heap'[c].live /\ heap'[c].name = heap[c].name
                 /\ heap'[c].kids = heap[c].kids
           /\ {c \in Addr : heap'[c].live} = {c \in Addr : heap[c].live}
           /\ \A k \in KidNames(heap, last'.x) \ JKeys(last'.doc) :
                 Untouched(heap[last'.x].kids[k]) ]_vars

\* a load whose document has an unknown key and lacks the key of a child
\* that holds a value other than its default
C3_Witness ==
    /\ last.op = "load" /\ heap[last.x].kind = "props" /\ last.doc.t = "obj"
    /\ "zz" \in JKeys(last.doc)
    /\ "Name" \notin JKeys(last.doc)
    /\ heap[last.x].kids["Name"] # NULL
    /\ heap[heap[last.x].kids["Name"]].val # 0

(***************************************************************************)
(* C4  Assign is intersection-only: A.assign(B) for two Registries gives   *)
(* each child of A whose name B also registers the value of B's child,     *)
(* leaves every child of A that B lacks as it was, registers nothing new   *)
(* in A, and leaves B as it was.                                           *)
(***************************************************************************)
C4_AssignIntersection ==
    [][ (last'.op = "assign" /\ ~last'.ub /\ heap[last'.x].kind = "props"
            /\ heap[last'.y].kind = "props" /\ last'.x # last'.y)
        => LET A == last'.x
               B == last'.y
           IN  /\ heap'[A].kids = heap[A].kids
               /\ Untouched(B)
               /\ \A k \in KidNames(heap, A) \ KidNames(heap, B) :
                     Untouched(heap[A].kids[k])
               /\ \A k \in KidNames(heap, A) \cap KidNames(heap, B) :
                     /\ heap'[heap[A].kids[k]].name = heap[heap[A].kids[k]].name
                     /\ SameValues(heap', heap[A].kids[k], heap, heap[B].kids[k]) ]_vars

\* an assign between an Example and a Pair: "Name" is on both sides and took
\* B's value, "Leaf" is only in A and holds a value of its own, "x" is only in B
C4_Witness ==
    /\ last.op = "assign" /\ ~last.ub
    /\ heap[last.x].cls = "Example" /\ heap[last.y].cls = "Pair"
    /\ heap[heap[last.x].kids["Name"]].val = heap[heap[last.y].kids["Name"]].val
    /\ heap[heap[last.x].kids["Name"]].val # 0
    /\ heap[heap[heap[last.x].kids["Leaf"]].kids["x"]].val # 0
    /\ heap[heap[last.y].kids["x"]].val # 0
    /\ heap[last.x].kids["x"] = NULL


\* object a (in heap h1) is a copy of object b (in heap h2): the same kind,
\* type and name, equal values, and the same holds of the children under
\* each name and of the elements at each position
RECURSIVE Faithful(_, _, _, _)
Faithful(h1, a, h2, b) ==
    IF a = NULL \/ b = NULL THEN a = b
    ELSE /\ h1[a].live /\ h2[b].live
         /\ h1[a].kind = h2[b].kind /\ h1[a].cls = h2[b].cls
         /\ h1[a].name = h2[b].name
         /\ h1[a].val = h2[b].val
         /\ KidNames(h1, a) = KidNames(h2, b)
         /\ \A k \in KidNames(h1, a) : Faithful(h1, h1[a].kids[k], h2, h2[b].kids[k])
         /\ Len(h1[a].elems) = Len(h2[b].elems)
         /\ \A i \in DOMAIN h1[a].elems : Faithful(h1, h1[a].elems[i], h2, h2[b].elems[i])

(***************************************************************************)
(* C5  Clone independence: a clone is built from objects allocated by the  *)
(* clone call and leaves the source as it was; from then on no object is   *)
(* reachable from both the source's tree and the clone, and a write to a   *)
(* scalar of one tree changes nothing in the other, at any depth.          *)
(***************************************************************************)
C5_Step ==
    /\ (last'.op = "clone" /\ ~last'.ub)
          => /\ Untouched(root["a"])
             /\ \A n \in Tree(heap', last'.y) : Count(last'.al, n) >= 1 /\ ~heap[n].live
    /\ last'.op = "write"
          => /\ last'.x \in Tree(heap, root["a"]) => Untouched(root["c"])
             /\ last'.x \in Tree(heap, root["c"]) => Untouched(root["a"])

C5_Disjoint ==
    root["c"] # NULL => Tree(heap, root["a"]) \cap Tree(heap, root["c"]) = {}

C5_CloneIndependence == [][C5_Step]_vars /\ []C5_Disjoint

\* c is a clone of the Box of a; the scalar of the first element of c's array
\* was written and now differs from the one in a
C5_Witness ==
    /\ last.op = "write" /\ root["c"] # NULL /\ heap[root["c"]].cls = "Box"
    /\ LET ca == heap[heap[root["c"]].kids["A"]].elems[1]
           aa == heap[heap[heap[root["a"]].kids["Box"]].kids["A"]].elems[1]
       IN  /\ ca # NULL /\ aa # NULL
           /\ last.x = heap[ca].kids["x"]
           /\ heap[heap[ca].kids["x"]].val # heap[heap[aa].kids["x"]].val

(***************************************************************************)
(* C6  Clone is a faithful deep copy: for a scalar, a Registry, an         *)
(* aggregate with the documented copy constructor, a sequence and an       *)
(* array, clone() returns a new object with the same name, the same child  *)
(* names and element count and equal values at every depth, and save() of  *)
(* the clone gives what save() of the source gives.                        *)
(* Stated as the claim; SpecClone refutes it for an aggregate one of whose *)
(* declared members was removed: the copy constructor runs the member      *)
(* initialisers, which add the member again.                               *)
(***************************************************************************)
C6_CloneFaithful ==
    [][ last'.op = "clone"
        => /\ ~last'.ub /\ ~last'.exc
           /\ last'.y # NULL /\ ~heap[last'.y].live
           /\ heap'[last'.y].name = heap[last'.x].name
           /\ Faithful(heap', last'.y, heap, last'.x)
           /\ save(heap', last'.y) = save(heap, last'.x)
           /\ save(heap', last'.x) = save(heap, last'.x) ]_vars

\* The contents of an object as a document, defined on the object tree: a
\* scalar's value; a Registry's children, each under its name (null when
\* there are none); a sequence's or array's elements in order.
RECURSIVE Contents(_, _)
Contents(h, a) ==
    CASE h[a].kind = "scalar" -> JInt(h[a].val)
      [] h[a].kind = "props"  ->
            IF KidNames(h, a) = {} THEN JNull
            ELSE JObj([k \in KidNames(h, a) |-> Contents(h, h[a].kids[k])])
      [] OTHER -> JArr([i \in DOMAIN h[a].elems |-> Contents(h, h[a].elems[i])])

(***************************************************************************)
(* C7  Shape of save(): the document save() returns for a named scalar,    *)
(* Registry, sequence or array is an object with exactly one key, the      *)
(* object's name, and the value under it is the object's contents; the     *)
(* document save() returns for an anonymous Registry is the contents       *)
(* themselves, one key per child and no key around them.  (The statement   *)
(* is about the document returned; a save() that ends in undefined         *)
(* behaviour returns none.)                                                *)
(***************************************************************************)
C7_SaveShape ==
    (last.op = "save" /\ SaveOk(last.ret))
    => IF heap[last.x].name # NoName
       THEN /\ last.ret.j.t = "obj"
            /\ JKeys(last.ret.j) = {heap[last.x].name}
            /\ last.ret.j.m[heap[last.x].name] = Contents(heap, last.x)
       ELSE /\ heap[last.x].kind = "props"
            /\ last.ret.j = Contents(heap, last.x)
            /\ JKeys(last.ret.j) = KidNames(heap, last.x)

\* save() of the anonymous Registry: "Name" and "Box" at the top, and under
\* "Box" the named sequence with two elements and the named array
C7_Witness ==
    /\ last.op = "save" /\ SaveOk(last.ret)
    /\ heap[last.x].kind = "props" /\ heap[last.x].name = NoName
    /\ JKeys(last.ret.j) = {"Name", "Box"}
    /\ JKeys(last.ret.j.m["Box"]) = {"A", "S"}
    /\ Len(last.ret.j.m["Box"].m["S"].e) = 2
    /\ last.ret.j.m["Box"].m["S"].e[1] # last.ret.j.m["Box"].m["S"].e[2]
    /\ last.ret.j.m["Name"] = JInt(1)

(***************************************************************************)
(* C8  Name-collision overwrite: an add under a name the Registry already  *)
(* registers destroys the Node registered before (and everything it owns)  *)
(* exactly once, registers the new Node under that name with the set of    *)
(* child names and every other child as they were; and a save() reports,   *)
(* under each name, the Node registered under it: after an add, the Node   *)
(* that add registered.                                                    *)
(***************************************************************************)
C8_AddStep ==
    (last'.op = "add" /\ ~last'.ub /\ heap[last'.x].kids[last'.key] # NULL)
    => LET p   == last'.x
           n   == last'.key
           old == heap[p].kids[n]
           new == last'.y
       IN  /\ \A c \in Tree(heap, old) : ~heap'[c].live /\ Count(last'.dl, c) = 1
           /\ new # old /\ heap'[new].live /\ heap'[new].name = n
           /\ heap'[p] = [heap[p] EXCEPT !.kids[n] = new]
           /\ KidNames(heap', p) = KidNames(heap, p)
           /\ \A k \in KidNames(heap, p) \ {n} : Untouched(heap[p].kids[k])

C8_SaveReports ==
    last.op = "save"
    => /\ SaveOk(last.ret)
       /\ KidNames(heap, last.x) # {} =>
             /\ JKeys(last.ret.j) = {"P"}
             /\ JKeys(last.ret.j.m["P"]) = KidNames(heap, last.x)
             /\ \A k \in KidNames(heap, last.x) :
                   last.ret.j.m["P"].m[k] = Contribution(heap, heap[last.x].kids[k])
       /\ (last.hist[1].op = "add" /\ last.hist[1].x = last.x)
             => /\ heap[last.x].kids[last.hist[1].key] = last.hist[1].y
                /\ heap[last.hist[1].y].kind = "scalar"
                      => last.ret.j.m["P"].m[last.hist[1].key] = last.hist[1].doc

C8_AddOverwrites == [][C8_AddStep]_vars /\ []C8_SaveReports

\* a save right after add<int>("Leaf", 1) replaced the aggregate Leaf (two
\* objects destroyed): the document holds 1 under "Leaf"
C8_Witness ==
    /\ last.op = "save" /\ last.hist[1].op = "add"
    /\ last.hist[1].key = "Leaf" /\ last.hist[1].doc = JInt(1)
    /\ Len(last.hist[1].dl) = 2
    /\ heap[last.hist[1].y].kind = "scalar"
    /\ last.ret.j.m["P"].m["Leaf"] = JInt(1)

(***************************************************************************)
(* C9  remove(name): a child registered under name is destroyed (with      *)
(* everything it owns, each object once) and unregistered, and every other *)
(* child is left as it was; when no child is registered under name nothing *)
(* changes and nothing is destroyed.                                       *)
(***************************************************************************)
C9_Remove ==
    [][ last'.op = "remove"
        => LET p   == last'.x
               n   == last'.key
               old == heap[p].kids[n]
           IN  /\ ~last'.ub /\ ~last'.exc
               /\ IF old # NULL
                  THEN /\ \A c \in Tree(heap, old) :
                             ~heap'[c].live /\ Count(last'.dl, c) = 1
                       /\ Len(last'.dl) = Cardinality(Tree(heap, old))
                       /\ heap'[p] = [heap[p] EXCEPT !.kids[n] = NULL]
                       /\ \A k \in KidNames(heap, p) \ {n} : Untouched(heap[p].kids[k])
                  ELSE heap' = heap /\ last'.dl = <<>> ]_vars

\* remove("Leaf") of an aggregate child (two objects destroyed) next to a
\* child "x" that still holds 1, right after a remove that found no child
C9_Witness ==
    /\ last.op = "remove" /\ last.key = "Leaf" /\ Len(last.dl) = 2
    /\ heap[last.x].kids["Leaf"] = NULL
    /\ heap[last.x].kids["x"] # NULL
    /\ heap[heap[last.x].kids["x"]].val = 1
    /\ last.hist[1].op = "remove" /\ last.hist[1].dl = <<>>


(***************************************************************************)
(* C10  Sequence resize on load: a load of a document array with M         *)
(* elements into a sequence of any length destroys the elements it had and *)
(* leaves it with exactly M elements, all non-null, pairwise distinct,     *)
(* allocated in this load, the i-th one equal to a default-constructed     *)
(* element that loaded the i-th document element.                          *)
(***************************************************************************)
\* object e equals a default-constructed object of class c that loaded d
LoadedFrom(h, e, c, d) ==
    LET f == Construct(Start(Heap0), c, NoName)
        g == load(f, f.ptr, d)
    IN  /\ h[e].live /\ h[e].cls = c
        /\ SameValues(h, e, g.h, f.ptr)

C10_SeqLoad ==
    [][ (last'.op = "load" /\ heap[last'.x].kind = "seq" /\ last'.doc.t = "arr")
        => LET s   == last'.x
               d   == last'.doc.e
               old == heap[s].elems
               new == heap'[s].elems
           IN  /\ ~last'.ub /\ ~last'.exc
               /\ Len(new) = Len(d)
               /\ \A i \in DOMAIN old : Count(last'.dl, old[i]) = 1
               /\ \A i \in DOMAIN new :
                     /\ new[i] # NULL
                     /\ Count(last'.al, new[i]) = 1
                     /\ LoadedFrom(heap', new[i], heap[s].cls, d[i])
                     /\ (d[i].t = "obj" /\ "x" \in JKeys(d[i]) /\ d[i].m["x"].t = "int")
                           => heap'[heap'[new[i]].kids["x"]].val = d[i].m["x"].i
               /\ \A i, j \in DOMAIN new :
                     i # j => Tree(heap', new[i]) \cap Tree(heap', new[j]) = {}
               /\ heap'[s] = [heap[s] EXCEPT !.elems = new] ]_vars

\* a load of two different element documents into a sequence that held two
\* elements (four objects destroyed): two elements with different values
C10_Witness ==
    /\ last.op = "load" /\ heap[last.x].kind = "seq" /\ last.doc.t = "arr"
    /\ Len(last.doc.e) = 2 /\ last.doc.e[1] # last.doc.e[2]
    /\ Len(last.dl) = 4
    /\ Len(heap[last.x].elems) = 2
    /\ heap[heap[heap[last.x].elems[1]].kids["x"]].val
          # heap[heap[heap[last.x].elems[2]].kids["x"]].val


(***************************************************************************)
(* C11  Sequence assign: dest.assign(other) for two distinct sequences of  *)
(* any lengths first destroys the elements dest had, each once, and then   *)
(* leaves dest with len(other) slots; slot i is null where other's slot i  *)
(* is null and otherwise holds a copy of other's element i that this call  *)
(* allocated (equal content, another object); other and dest's name are    *)
(* unchanged.                                                              *)
(***************************************************************************)
C11_SeqAssign ==
    [][ (last'.op = "assign" /\ heap[last'.x].kind = "seq"
            /\ heap[last'.y].kind = "seq" /\ last'.x # last'.y)
        => LET d   == last'.x
               o   == last'.y
               old == heap[d].elems
               new == heap'[d].elems
               src == heap[o].elems
           IN  /\ ~last'.ub /\ ~last'.exc
               /\ Len(new) = Len(src)
               /\ Untouched(o)
               /\ heap'[d] = [heap[d] EXCEPT !.elems = new]
               /\ LET gone == UNION {Tree(heap, old[i]) : i \in DOMAIN old}
                      n    == Cardinality(gone)
                  IN  /\ Len(last'.dl) >= n
                      /\ {last'.dl[j] : j \in 1..n} = gone
               /\ \A i \in DOMAIN new :
                     IF src[i] = NULL THEN new[i] = NULL
                     ELSE /\ new[i] # NULL /\ new[i] # src[i]
                          /\ Count(last'.al, new[i]) >= 1
                          /\ Tree(heap', new[i]) \cap Tree(heap', o) = {}
                          /\ Faithful(heap', new[i], heap, src[i]) ]_vars

\* an assign from a sequence of one element (holding 1) and one null slot to
\* a sequence that held two elements (four objects destroyed before the
\* first allocation)
C11_Witness ==
    /\ last.op = "assign" /\ ~last.ub
    /\ Len(last.dl) > 4 /\ last.al # <<>>
    /\ \A j \in 1..4 : last.dl[j] # last.al[1]
    /\ Len(heap[last.y].elems) = 2
    /\ heap[last.y].elems[1] # NULL /\ heap[last.y].elems[2] = NULL
    /\ heap[last.x].elems[1] # NULL /\ heap[last.x].elems[2] = NULL
    /\ heap[last.x].elems[1] # heap[last.y].elems[1]
    /\ heap[heap[heap[last.x].elems[1]].kids["x"]].val = 1


(***************************************************************************)
(* C12  Anonymous merge: once an unnamed Registry U is registered with add *)
(* as a child of the named Registry P, P.save() is {P.name: O} where O     *)
(* holds the keys of U's children next to the keys of P's other children   *)
(* and no key for U.                                                       *)
(* Stated as the claim; SpecAnon refutes it at the registration: add       *)
(* passes U's null name to remove, which builds a std::string from it.     *)
(***************************************************************************)
C12_AnonMerge ==
    (last.op = "add" /\ last.key = NoName)
    => /\ ~last.ub /\ ~last.exc
       /\ last.y # NULL /\ heap[last.y].live /\ heap[last.y].name = NoName
       /\ LET s == save(heap, last.x)
          IN  /\ SaveOk(s)
              /\ JKeys(s.j) = {heap[last.x].name}
              /\ JKeys(s.j.m[heap[last.x].name])
                    = KidNames(heap, last.x) \cup KidNames(heap, last.y)


\* the concrete kind of an object: its class template and type argument
ConcreteKind(h, a) == <<h[a].kind, h[a].cls>>

(***************************************************************************)
(* C13  TypeMismatch: self.assign(other) for two objects of different      *)
(* concrete kinds fails with a reported condition (an exception reaches    *)
(* the caller) and neither reads nor copies anything: no undefined         *)
(* behaviour, and every object is as it was.                               *)
(* Stated as the claim; SpecKinds refutes it: each assign dereferences the *)
(* null pointer cast returned for the mismatching argument.                *)
(***************************************************************************)
C13_TypeMismatch ==
    [][ (last'.op = "assign"
            /\ ConcreteKind(heap, last'.x) # ConcreteKind(heap, last'.y))
        => /\ ~last'.ub
           /\ last'.exc
           /\ heap' = heap ]_vars

(***************************************************************************)
(* C14  MissingName: load on a scalar, a sequence or an array that has no  *)
(* name fails with a reported condition (an exception reaches the caller)  *)
(* before the document is converted: the object is as it was, whatever the *)
(* document.                                                               *)
(* Stated as the claim; SpecKinds refutes it: the three loads build the    *)
(* error object, do not throw it, and go on to convert the document.       *)
(***************************************************************************)
C14_MissingName ==
    [][ (last'.op = "load" /\ heap[last'.x].name = NoName
            /\ heap[last'.x].kind \in {"scalar", "seq", "arr"})
        => /\ last'.exc
           /\ heap' = heap ]_vars


\* loading document d into object a reaches a scalar whose conversion of the
\* value offered to it fails
RECURSIVE HitsBadValue(_, _, _)
HitsBadValue(h, a, d) ==
    CASE h[a].kind = "scalar" -> ~get_int(d).ok
      [] h[a].kind = "props"  ->
            \E k \in JKeys(d) \cap KidNames(h, a) : HitsBadValue(h, h[a].kids[k], d.m[k])
      [] OTHER -> FALSE

(***************************************************************************)
(* C15  Conversion-error propagation: when a load reaches a scalar child   *)
(* whose document value cannot be converted, the failure unwinds through   *)
(* every enclosing Registry load and reaches the caller of the outermost   *)
(* load.                                                                   *)
(* Stated as the claim; SpecAgg refutes it: properties::load catches the   *)
(* exception and returns normally.                                         *)
(***************************************************************************)
C15_ConversionPropagates ==
    [][ (last'.op = "load" /\ heap[last'.x].kind = "props"
            /\ HitsBadValue(heap, last'.x, last'.doc))
        => last'.exc ]_vars


(***************************************************************************)
(* C16  Container save: save() of a sequence or array whose slots all hold *)
(* elements of an aggregate type T, named or not, is {name: a} where a has *)
(* one entry per element, in order, and entry i is the complete object of  *)
(* element i's children; so a save() right after a load of a document      *)
(* array d whose objects carry exactly T's keys is {name: d}.              *)
(* Stated as the claim; SpecElems refutes it for an unnamed T: save()      *)
(* builds a std::string from T's null name, and front() would reduce each  *)
(* element's flat document to its first value.                             *)
(***************************************************************************)
C16_ContainerSave ==
    [][ (last'.op = "save" /\ heap[last'.x].kind \in {"seq", "arr"}
            /\ \A i \in DOMAIN heap[last'.x].elems : heap[last'.x].elems[i] # NULL)
        => LET c == last'.x
           IN  /\ SaveOk(last'.ret)
               /\ last'.ret.j = Obj1(heap[c].name, Contents(heap, c))
               /\ Len(last'.ret.j.m[heap[c].name].e) = Len(heap[c].elems)
               /\ (last.op = "load" /\ last.x = c /\ ~last.exc /\ heap[c].kind = "seq")
                     => last'.ret.j = Obj1(heap[c].name, last.doc) ]_vars


\* the containers the application owns, and the slots that hold pointer e
Containers == {c \in Owned : Live(heap, c) /\ heap[c].kind \in {"seq", "arr"}}
Owners(e)  == {<<c, i>> \in Containers \X (1..(MaxLen + ArrN)) :
                  i \in DOMAIN heap[c].elems /\ heap[c].elems[i] = e}

(***************************************************************************)
(* C17  Ownership safety: no load, assign, clone or destruction executes   *)
(* undefined behaviour (none deallocates an object twice or uses a         *)
(* deallocated one), and after it every non-null element pointer of every  *)
(* container refers to a live object that sits in exactly one slot.        *)
(* Stated as the claim; SpecTwin refutes it for the array: its clear()     *)
(* resets a copy of each pointer, so after an assign from an array with    *)
(* null slots the destination's slots keep the deallocated addresses.      *)
(***************************************************************************)
C17_Ownership ==
    /\ last.op \in {"load", "assign", "clone", "destroy"} => ~last.ub
    /\ ~last.ub =>
          \A c \in Containers : \A i \in DOMAIN heap[c].elems :
              LET e == heap[c].elems[i]
              IN  e # NULL => /\ Live(heap, e)
                              /\ heap[e].kind = "props"
                              /\ Cardinality(Owners(e)) = 1

\* sequence q and array r hold the same, slot by slot
SlotsRelated(h, q, r) ==
    /\ Len(h[q].elems) = Len(h[r].elems)
    /\ \A i \in DOMAIN h[q].elems :
          LET e == h[q].elems[i]
              f == h[r].elems[i]
          IN  /\ e = NULL <=> f = NULL
              /\ e # NULL => /\ Live(h, e) /\ Live(h, f)
                              /\ SameValues(h, e, h, f)

(***************************************************************************)
(* C18  An array of ArrN elements behaves like a sequence of length ArrN:  *)
(* driven with the same loads, assigns, clones and saves, slot i of the    *)
(* array is null exactly when slot i of the sequence is, and two non-null  *)
(* slots hold equal contents.                                              *)
(* Stated as the claim; SpecTwin refutes it: after an assign from a pair   *)
(* that was never loaded the sequence holds null slots and the array the   *)
(* addresses of the elements it destroyed.                                 *)
(***************************************************************************)
C18_ArrayLikeSequence ==
    ~last.ub =>
        \A v \in {"s", "t"} :
            root[v] # NULL => SlotsRelated(heap, root[v], root[Twin(v)])


\* document d offers an unconvertible value to a scalar of a
\* default-constructed object of class c
BadElem(c, d) ==
    LET f == Construct(Start(Heap0), c, NoName)
    IN  HitsBadValue(f.h, f.ptr, d)

(***************************************************************************)
(* C19  Partial failure of a container load: when element k of the         *)
(* document array is the first to hold a value that cannot be converted,   *)
(* the error leaves the sequence's load and reaches its caller; the        *)
(* sequence has one slot per document element, the elements before k are   *)
(* allocated and loaded, and the slots after k are null.                   *)
(* Stated as the claim; SpecSeq refutes it: the element's own load catches *)
(* the error, so the sequence's load goes on and returns normally.         *)
(***************************************************************************)
C19_PartialContainerLoad ==
    [][ (last'.op = "load" /\ heap[last'.x].kind = "seq" /\ last'.doc.t = "arr"
            /\ \E k \in DOMAIN last'.doc.e : BadElem(heap[last'.x].cls, last'.doc.e[k]))
        => LET q   == last'.x
               d   == last'.doc.e
               k   == Min({i \in DOMAIN d : BadElem(heap[q].cls, d[i])})
               new == heap'[q].elems
           IN  /\ last'.exc
               /\ Len(new) = Len(d)
               /\ \A i \in 1..(k - 1) :
                     new[i] # NULL /\ LoadedFrom(heap', new[i], heap[q].cls, d[i])
               /\ \A i \in (k + 1)..Len(d) : new[i] = NULL ]_vars


(***************************************************************************)
(* C20  assign changes no name and no Registry's shape: after a successful *)
(* self.assign(other), self and every object below it has the name it had, *)
(* and every Registry among them registers the same child names, each for  *)
(* a child with the name it had, whatever the names on other's side.       *)
(***************************************************************************)
C20_AssignKeepsNames ==
    [][ (last'.op = "assign" /\ ~last'.ub /\ ~last'.exc)
        => \A c \in Tree(heap, last'.x) :
              /\ heap'[c].live
              /\ heap'[c].name = heap[c].name
              /\ KidNames(heap', c) = KidNames(heap, c)
              /\ \A k \in KidNames(heap, c) :
                    heap'[heap'[c].kids[k]].name = heap[heap[c].kids[k]].name ]_vars

\* an assign to a Pair from an aggregate with another name (Example or none):
\* the Pair took the other's "Name" value and is still called "Pair", with
\* its children "Name" and "x"
C20_Witness ==
    /\ last.op = "assign" /\ ~last.ub /\ ~last.exc
    /\ heap[last.x].cls = "Pair" /\ heap[last.x].name = "Pair"
    /\ heap[last.y].name # "Pair"
    /\ KidNames(heap, last.x) = {"Name", "x"}
    /\ KidNames(heap, last.y) = {"Name", "Leaf"}
    /\ heap[heap[last.x].kids["Name"]].val = 1
    /\ heap[heap[last.y].kids["Name"]].val = 1
    /\ heap[heap[last.x].kids["x"]].val = 1


(***************************************************************************)
(* C21  load replaces a container's contents: a load of a document array   *)
(* into a sequence or array first destroys every element the container     *)
(* held, and every slot then holds an element allocated in this load, in   *)
(* which a field whose key the element's document lacks holds the default  *)
(* of the element type, whatever the element at that position held before. *)
(* (Checked in the states construction and loads lead to.)                 *)
(***************************************************************************)
C21_LoadReplaces ==
    [][ (last'.op = "load" /\ heap[last'.x].kind \in {"seq", "arr"} /\ ~last'.exc)
        => LET c    == last'.x
               d    == last'.doc.e
               old  == heap[c].elems
               new  == heap'[c].elems
               gone == UNION {Tree(heap, old[i]) : i \in DOMAIN old}
               n    == Cardinality(gone)
           IN  /\ ~last'.ub
               /\ Len(last'.dl) = n /\ {last'.dl[j] : j \in 1..n} = gone
               /\ \A i \in DOMAIN new :
                     /\ new[i] # NULL /\ heap'[new[i]].live
                     /\ Count(last'.al, new[i]) = 1
                     /\ "x" \notin JKeys(d[i])
                           => heap'[heap'[new[i]].kids["x"]].val = 0
                     /\ LoadedFrom(heap', new[i], heap[c].cls, d[i]) ]_vars

\* a load of [{}, ...] right after a load of [{"x": 1}, ...] into the same
\* container: the first element holds the default 0, not the 1 held there
C21_Witness ==
    /\ last.op = "load" /\ last.hist[1].op = "load" /\ last.x = last.hist[1].x
    /\ ~last.exc /\ ~last.ub
    /\ Len(last.doc.e) = 2 /\ Len(last.hist[1].doc.e) = 2
    /\ last.hist[1].doc.e[1] = Obj1("x", JInt(1))
    /\ last.doc.e[1] = ObjEmpty
    /\ Len(last.dl) = 4
    /\ heap[heap[heap[last.x].elems[1]].kids["x"]].val = 0


(***************************************************************************)
(* C22  no persistent null elements in a sequence: starting from empty     *)
(* sequences, after every load, assign (from the other sequence or from    *)
(* the sequence itself) and clone that has returned, no live sequence      *)
(* holds a null element.                                                   *)
(***************************************************************************)
C22_NoNullElements ==
    ~last.ub =>
        \A a \in Addr :
            (heap[a].live /\ heap[a].kind = "seq")
                => \A i \in DOMAIN heap[a].elems : heap[a].elems[i] # NULL


(***************************************************************************)
(* C23  save() is total: in every state reached by constructing an         *)
(* aggregate (one with a sequence field and an array field that were never *)
(* loaded included) and loading it, a save() of any of its nodes returns a *)
(* document: it ends with no exception and without reading through a null  *)
(* or dangling element pointer.                                            *)
(***************************************************************************)
C23_SaveTotal ==
    last.op = "save" => SaveOk(last.ret)


(***************************************************************************)
(* C24  merge_JSON(parent, addition), for an addition that is an object    *)
(* and a parent that is an object or null: afterwards parent holds, under  *)
(* every key of addition, the value addition holds there as a whole (an    *)
(* object under that key is replaced, not merged); every other key of      *)
(* parent keeps its value; no key appears that neither had; the value      *)
(* returned is parent; no exception leaves the call.                       *)
(***************************************************************************)
C24_Merge ==
    [][ (last'.op = "merge" /\ last'.doc.t = "obj"
            /\ last.ret.j.t \in {"null", "obj"})
        => LET parent == last.ret.j
               add    == last'.doc
               r      == last'.ret.j
           IN  /\ ~last'.exc /\ ~last'.ub
               /\ JKeys(r) = JKeys(parent) \cup JKeys(add)
               /\ \A k \in JKeys(add) : r.m[k] = add.m[k]
               /\ \A k \in JKeys(parent) \ JKeys(add) : r.m[k] = parent.m[k]
               /\ JKeys(add) = {} => r = parent ]_vars

\* parent {"A": {"x": 0}, "x": 1} merged with {"A": {"A": 1}}: "A" holds the
\* addition's object alone, "x" is kept
C24_Witness ==
    /\ last.op = "merge" /\ ~last.exc
    /\ last.hist[1].ret.j = Obj2("A", Obj1("x", JInt(0)), "x", JInt(1))
    /\ last.doc = Obj1("A", Obj1("A", JInt(1)))
    /\ last.ret.j = Obj2("A", Obj1("A", JInt(1)), "x", JInt(1))


(***************************************************************************)
(* C25  I/O failures are reported and are not fatal: a load_JSON of a path *)
(* that cannot be read or whose text cannot be parsed writes an error to   *)
(* std::cerr, lets no exception escape and returns an empty document; a    *)
(* save_JSON to a path that cannot be opened for writing reports an error  *)
(* (save_JSON returns nothing, so: writes one to std::cerr) and lets no    *)
(* exception escape.                                                       *)
(***************************************************************************)
C25_IoReported ==
    /\ (last.op = "load_JSON" /\ FileAt(io.files, last.key).k # "text")
            => io.err # <<>> /\ ~last.exc /\ last.ret.j = JNull
    /\ (last.op = "save_JSON" /\ last.key \notin DOMAIN io.files)
            => io.err # <<>> /\ ~last.exc

\* the load_JSON half alone
C25_LoadReported ==
    (last.op = "load_JSON" /\ FileAt(io.files, last.key).k # "text")
        => io.err # <<>> /\ ~last.exc /\ last.ret.j = JNull


(***************************************************************************)
(* C26  Registry key invariant: in every state the constructors, add,      *)
(* remove, load, assign and clone lead to, every key of a Registry's child *)
(* map is the name of the node stored under it; so no two children of one  *)
(* Registry share a name, no two keys hold the same node, and no child has *)
(* a null name.                                                            *)
(***************************************************************************)
C26_KeyInvariant ==
    ~last.ub =>
        \A a \in Addr :
            (heap[a].live /\ heap[a].kind = "props") =>
                /\ \A k \in Names :
                      heap[a].kids[k] # NULL =>
                          /\ heap[heap[a].kids[k]].live
                          /\ heap[heap[a].kids[k]].name = k
                          /\ heap[heap[a].kids[k]].name # NoName
                /\ \A k1, k2 \in Names :
                      (k1 # k2 /\ heap[a].kids[k1] # NULL /\ heap[a].kids[k2] # NULL)
                          => /\ heap[a].kids[k1] # heap[a].kids[k2]
                             /\ heap[heap[a].kids[k1]].name # heap[heap[a].kids[k2]].name

\* the clone of p, made while p holds "x", "S" with an element, and Leaf
C26_Witness ==
    /\ last.op = "clone" /\ ~last.ub /\ root["c"] # NULL
    /\ \A k \in {"x", "S", "Leaf"} :
          /\ heap[root["c"]].kids[k] # NULL
          /\ heap[root["c"]].kids[k] # heap[root["p"]].kids[k]
    /\ heap[heap[root["c"]].kids["S"]].elems # <<>>


\* The members of a: a and the objects reached from it through child maps
\* alone (the elements of a sequence or array are not members).
RECURSIVE MembersFrom(_, _, _)
MembersFrom(h, a, d) ==
    IF a = NULL THEN {}
    ELSE IF d = 0 \/ ~Live(h, a) THEN {a}
    ELSE {a} \cup UNION {MembersFrom(h, h[a].kids[k], d - 1) : k \in Names}

Members(h, a) == MembersFrom(h, a, Depth)

(***************************************************************************)
(* C27  handles stay valid across load and assign: a load or an assign of  *)
(* a Registry creates, destroys and replaces no member of it (its          *)
(* children, and theirs for nested Registries): every member is the same   *)
(* live object afterwards, of the same kind, class and name and with the   *)
(* same child map; only scalar values and the element lists of member      *)
(* sequences and arrays change.                                            *)
(***************************************************************************)
C27_HandlesStay ==
    [][ (last'.op \in {"load", "assign"} /\ heap[last'.x].kind = "props"
            /\ ~last'.ub)
        => LET x == last'.x
           IN  /\ Members(heap', x) = Members(heap, x)
               /\ \A n \in Members(heap, x) :
                     /\ heap[n].live /\ heap'[n].live
                     /\ heap'[n].kind = heap[n].kind
                     /\ heap'[n].cls = heap[n].cls
                     /\ heap'[n].name = heap[n].name
                     /\ heap'[n].kids = heap[n].kids
                     /\ heap[n].kind = "props" => heap'[n] = heap[n]
                     /\ heap[n].kind = "scalar" => heap'[n].elems = heap[n].elems
                     /\ heap[n].kind \in {"seq", "arr"} => heap'[n].val = heap[n].val
                     /\ \A i \in DOMAIN last'.dl : last'.dl[i] # n
                     /\ \A i \in DOMAIN last'.al : last'.al[i] # n ]_vars

\* a load of p that named "x" and "S": the scalar holds the new value, the
\* sequence has a new element, and "x", "S" and Leaf are members
C27_Witness ==
    /\ last.op = "load" /\ last.x = root["p"] /\ ~last.ub
    /\ "S" \in JKeys(last.doc) /\ last.al # <<>>
    /\ \A k \in {"x", "S", "Leaf"} : heap[last.x].kids[k] # NULL
    /\ heap[heap[last.x].kids["x"]].val = 1
    /\ Len(heap[heap[last.x].kids["S"]].elems) = 1


(***************************************************************************)
(* C28  self-assignment is a no-op for every kind of node (scalar,         *)
(* Registry, sequence, array, and a Registry that owns sequences and       *)
(* arrays): x.assign(x) ends normally, deallocates nothing, and x.save()   *)
(* is afterwards what it was before.                                       *)
(***************************************************************************)
C28_SelfAssign ==
    [][ (last'.op = "assign" /\ last'.x = last'.y)
        => /\ ~last'.ub /\ ~last'.exc
           /\ last'.dl = <<>>
           /\ save(heap', last'.x) = save(heap, last'.x) ]_vars

\* the same for the nodes that own no sequence and no array with elements
C28_SelfAssignPlain ==
    [][ (last'.op = "assign" /\ last'.x = last'.y
            /\ \A n \in Tree(heap, last'.x) :
                  heap[n].kind \in {"seq", "arr"}
                      => \A i \in DOMAIN heap[n].elems : heap[n].elems[i] = NULL)
        => /\ ~last'.ub /\ ~last'.exc
           /\ heap' = heap ]_vars


\* the load of document d by object c ends with an exception: a scalar whose
\* value does not convert, a sequence or array whose value is no array (of
\* the array's size); the load of a Registry catches what its children throw
Fails(h, c, d) ==
    CASE h[c].kind = "scalar" -> ~get_int(d).ok
      [] h[c].kind = "seq"    -> ~get_vector(d).ok
      [] h[c].kind = "arr"    -> ~get_array(d).ok
      [] OTHER                -> FALSE

\* the positions in the iteration of document d at which the load of a child
\* of Registry a fails
FailingAt(h, a, d) ==
    {i \in 1..Len(items(d)) :
        /\ items(d)[i] \in KidNames(h, a)
        /\ Fails(h, h[a].kids[items(d)[i]], d.m[items(d)[i]])}

(***************************************************************************)
(* C29  Registry.load with a failing child: when the load of the child for *)
(* some key of the document fails, the load of the Registry returns        *)
(* normally; the children for the keys before the failing key (in the      *)
(* document's iteration order) hold the values the document gives them,    *)
(* and the failing child and the children for all later keys are as they   *)
(* were.  (The documents offered give a complete value to each child       *)
(* before the failing key.)                                                *)
(***************************************************************************)
C29_FailingChild ==
    [][ (last'.op = "load" /\ heap[last'.x].kind = "props" /\ last'.doc.t = "obj"
            /\ FailingAt(heap, last'.x, last'.doc) # {})
        => LET a  == last'.x
               d  == last'.doc
               ks == items(d)
               f  == Min(FailingAt(heap, a, d))
           IN  /\ ~last'.exc /\ ~last'.ub
               /\ heap'[a] = heap[a]
               /\ \A i \in 1..Len(ks) :
                     ks[i] \in KidNames(heap, a) =>
                         IF i < f
                         THEN Contents(heap', heap[a].kids[ks[i]]) = d.m[ks[i]]
                         ELSE Untouched(heap[a].kids[ks[i]]) ]_vars

\* the load of {"Leaf": {"x": 1}, "S": 1, "x": 1} by a Registry that holds
\* all three: Leaf took the 1, "S" failed, and "x" still holds 0
C29_Witness ==
    /\ last.op = "load" /\ ~last.exc /\ ~last.ub
    /\ JKeys(last.doc) = {"Leaf", "S", "x"} /\ last.doc.m["S"] = JInt(1)
    /\ \A k \in {"Leaf", "S", "x"} : heap[last.x].kids[k] # NULL
    /\ heap[heap[heap[last.x].kids["Leaf"]].kids["x"]].val = 1
    /\ heap[heap[last.x].kids["x"]].val = 0
    /\ heap[heap[last.x].kids["S"]].elems # <<>>


\* properties::save, the loop, with the map walked in the order ks of its
\* keys: merge_JSON(parent, child->save()) for one child after the other
RECURSIVE MergeIn(_, _, _, _)
MergeIn(h, a, acc, ks) ==
    IF ~SaveOk(acc) \/ ks = <<>> THEN acc
    ELSE LET s == save(h, h[a].kids[Head(ks)])
             g == merge_JSON(acc.j, s.j)
         IN  IF ~SaveOk(s) THEN s
             ELSE IF ~g.ok THEN SaveThrow
             ELSE MergeIn(h, a, Saved(g.j), Tail(ks))

\* the orders a set of keys can be walked in
Orders(S) ==
    {o \in [1..Cardinality(S) -> S] : \A i, j \in DOMAIN o : o[i] = o[j] => i = j}

(***************************************************************************)
(* C30  save() does not depend on the order the child map is walked in:    *)
(* for every Registry that add, remove, load, assign and clone lead to,    *)
(* merging the children's save() results in any two orders gives the same  *)
(* document (the one the model's fixed order gives), and no two children's *)
(* save() results share a key.                                             *)
(***************************************************************************)
C30_OrderIndependent ==
    ~last.ub =>
        \A a \in Owned :
            (Live(heap, a) /\ heap[a].kind = "props") =>
                /\ \A o1, o2 \in Orders(KidNames(heap, a)) :
                      MergeIn(heap, a, Saved(JNull), o1) = MergeIn(heap, a, Saved(JNull), o2)
                /\ \A o \in Orders(KidNames(heap, a)) :
                      MergeIn(heap, a, Saved(JNull), o) = MergeKids(heap, a, Saved(JNull), 1)
                /\ \A k1, k2 \in KidNames(heap, a) :
                      k1 # k2 => JKeys(save(heap, heap[a].kids[k1]).j)
                                    \cap JKeys(save(heap, heap[a].kids[k2]).j) = {}

\* a save() of p while it holds "x", Leaf and "S" with an element: three
\* children, six orders
C30_Witness ==
    /\ last.op = "save" /\ SaveOk(last.ret) /\ last.x = root["p"]
    /\ KidNames(heap, last.x) = {"x", "Leaf", "S"}
    /\ heap[heap[last.x].kids["S"]].elems # <<>>
    /\ JKeys(last.ret.j.m["P"]) = {"x", "Leaf", "S"}

=============================================================================
